---- MODULE Spec2Model ----
(***************************************************************************)
(* Customer identity reconciliation of GESTIONALEticket: the customer-code *)
(* allocator (services/customer_codes.py), the calendar-to-customer sync   *)
(* (services/customer_sync.py) and the customer routes of app.py, over a   *)
(* SQLite customers table.                                                 *)
(*                                                                         *)
(* Text values are sequences of one-character strings, so that strip(),    *)
(* lower(), ord() and SQL's ORDER BY are computed, not assumed.            *)
(***************************************************************************)
EXTENDS Integers, Sequences, FiniteSets, TLC

VARIABLES
    codec,      \* the codec functions under test: inputs, position, results
    customers,  \* the committed rows of the customers table
    nextId,     \* the AUTOINCREMENT counter of customers.id
    calendar,   \* the candidates extract_customers returns for the sync window
    last,       \* what the last request did (observer, written by the handlers
                \* that run one request at a time)
    hist,       \* history (observer): codes ever held, allocations since a delete
    conn,       \* per concurrent writer: its request's position and connection
    dbLock,     \* the writer whose open transaction holds SQLite's write lock
    env,        \* the OAuth files on disk: client secrets and saved token
    sched,      \* the CalendarSyncScheduler: _thread, _stop_event, _lock, and
                \* the position of the thread calling start() and stop()
    workers,    \* per worker thread of the scheduler: its position in _worker
    users,      \* the users table: id -> role
    tickets,    \* the rows of the tickets table, by id
    ticket_history, \* the rows of the ticket_history table, in insertion order
    session,    \* the id of the logged-in user of the browser session (0: none)
    events      \* the Calendar API events handed to extract_customers

storeVars == <<codec, customers, nextId, calendar, last, hist, conn, dbLock>>
schedVars == <<env, sched, workers>>
webVars == <<users, tickets, ticket_history, session>>
inputVars == <<events>>
restVars == <<schedVars, webVars, inputVars>>
vars == <<codec, customers, nextId, calendar, last, hist, conn, dbLock,
          env, sched, workers, users, tickets, ticket_history, session,
          events>>

-----------------------------------------------------------------------------
(* Characters and strings *)

\* The characters the model uses, in ASCII order.
AsciiTable ==
    <<"\n", " ", "-", "0", "1", "2", "3", "4", "5", "6", "7", "8", "9", ":", "=",
      "A", "B", "C", "D", "E", "F", "G", "H", "I", "J", "K", "L", "M",
      "N", "O", "P", "Q", "R", "S", "T", "U", "V", "W", "X", "Y", "Z",
      "a", "b", "c", "d", "e", "f", "g", "h", "i", "j", "k", "l", "m",
      "n", "o", "p", "q", "r", "s", "t", "u", "v", "w", "x", "y", "z">>

Chars == {AsciiTable[i] : i \in DOMAIN AsciiTable}

\* ord(): the position in ASCII order (differences between letters are kept).
OrdTable == [c \in Chars |-> CHOOSE i \in DOMAIN AsciiTable : AsciiTable[i] = c]

Ord(c) == OrdTable[c]

UpperFirst == Ord("A")
UpperLast == Ord("Z")

\* str.lower() and SQL LOWER() on one character: A-Z are shifted to a-z.
LowerChar(c) ==
    IF Ord(c) >= UpperFirst /\ Ord(c) <= UpperLast
    THEN AsciiTable[Ord(c) - UpperFirst + Ord("a")]
    ELSE c

Lower(s) == [i \in DOMAIN s |-> LowerChar(s[i])]

\* The whitespace characters of the alphabet (str.strip(), the regex \s).
Whitespace == {" ", "\n"}

RECURSIVE LStrip(_)
LStrip(s) == IF s # <<>> /\ Head(s) \in Whitespace THEN LStrip(Tail(s)) ELSE s

RECURSIVE RStrip(_)
RStrip(s) ==
    IF s # <<>> /\ s[Len(s)] \in Whitespace
    THEN RStrip(SubSeq(s, 1, Len(s) - 1))
    ELSE s

\* str.strip()
Strip(s) == RStrip(LStrip(s))

\* SQL NULL / Python None; never equal to a text value.
NULL == <<"NULL">>

\* Python's (value or ''): None and '' both give ''.
OrEmpty(v) == IF v = NULL THEN <<>> ELSE v

\* (value or '').strip() is empty.
Blank(v) == Strip(OrEmpty(v)) = <<>>

\* Python's (text or None): '' gives None.
OrNone(s) == IF s = <<>> THEN NULL ELSE s

\* Byte-wise string order (SQLite BINARY collation, Python str <).
RECURSIVE StrLess(_, _)
StrLess(s, t) ==
    IF t = <<>> THEN FALSE
    ELSE IF s = <<>> THEN TRUE
    ELSE IF Head(s) # Head(t) THEN Ord(Head(s)) < Ord(Head(t))
    ELSE StrLess(Tail(s), Tail(t))

-----------------------------------------------------------------------------
(* services/customer_codes.py *)

CUSTOMER_CODE_ALPHABET ==
    <<"a", "b", "c", "d", "e", "f", "g", "h", "i", "j", "k", "l", "m",
      "n", "o", "p", "q", "r", "s", "t", "u", "v", "w", "x", "y", "z">>

CUSTOMER_CODE_LENGTH == 4

AlphabetChars == {CUSTOMER_CODE_ALPHABET[i] : i \in DOMAIN CUSTOMER_CODE_ALPHABET}

RECURSIVE Power(_, _)
Power(b, e) == IF e = 0 THEN 1 ELSE b * Power(b, e - 1)

MAX_CUSTOMER_CODES == Power(Len(CUSTOMER_CODE_ALPHABET), CUSTOMER_CODE_LENGTH)

\* The outcome of a raise ValueError(...) in the two conversions.
InvalidCode == -1
OutOfRange == <<"ValueError">>

\* The for loop of customer_code_to_int, from character index i on.
RECURSIVE DecodeLoop(_, _, _)
DecodeLoop(normalized, i, value) ==
    IF i > Len(normalized) THEN value
    ELSE IF normalized[i] \notin AlphabetChars THEN InvalidCode
    ELSE DecodeLoop(normalized, i + 1,
                    value * Len(CUSTOMER_CODE_ALPHABET)
                        + (Ord(normalized[i]) - Ord("a")))

customer_code_to_int(code) ==
    LET normalized == Lower(Strip(OrEmpty(code)))
    IN  IF Len(normalized) # CUSTOMER_CODE_LENGTH THEN InvalidCode
        ELSE DecodeLoop(normalized, 1, 0)

\* The for loop of int_to_customer_code, filling chars from index down to 1.
RECURSIVE EncodeLoop(_, _, _)
EncodeLoop(value, index, chars) ==
    IF index < 1 THEN chars
    ELSE EncodeLoop(value \div Len(CUSTOMER_CODE_ALPHABET), index - 1,
                    [chars EXCEPT ![index] =
                        CUSTOMER_CODE_ALPHABET[(value % Len(CUSTOMER_CODE_ALPHABET)) + 1]])

\* As int_to_customer_code, filling the characters from the first index up.
int_to_customer_code_reversed(value) ==
    IF ~(0 <= value /\ value < MAX_CUSTOMER_CODES) THEN OutOfRange
    ELSE LET chars == EncodeLoop(value, CUSTOMER_CODE_LENGTH,
                                 [i \in 1..CUSTOMER_CODE_LENGTH |-> "a"])
         IN  [i \in 1..CUSTOMER_CODE_LENGTH |-> chars[CUSTOMER_CODE_LENGTH + 1 - i]]

int_to_customer_code(value) ==
    IF ~(0 <= value /\ value < MAX_CUSTOMER_CODES) THEN OutOfRange
    ELSE EncodeLoop(value, CUSTOMER_CODE_LENGTH,
                    [i \in 1..CUSTOMER_CODE_LENGTH |-> "a"])

\* As CodedRows, without the code != '' condition.
CodedRowsNotNull(db) == {r \in db : r.code # NULL}

\* SELECT code FROM customers WHERE code IS NOT NULL AND code != ''
CodedRows(db) == {r \in db : r.code # NULL /\ r.code # <<>>}

\* ... ORDER BY code DESC LIMIT 1: the byte-wise greatest stored code.
MaxCode(db) ==
    CHOOSE c \in {r.code : r \in CodedRows(db)} :
        \A d \in {r.code : r \in CodedRows(db)} : d = c \/ StrLess(d, c)

\* As generate_next_customer_code, wrapping to the first code after the last.
generate_next_customer_code_wrapping(db) ==
    IF CodedRows(db) = {}
    THEN [raised |-> FALSE, code |-> int_to_customer_code(0)]
    ELSE LET current_value == customer_code_to_int(MaxCode(db))
             next_value == (current_value + 1) % MAX_CUSTOMER_CODES
         IN  IF current_value = InvalidCode
             THEN [raised |-> TRUE, error |-> "Codice cliente non valido."]
             ELSE [raised |-> FALSE, code |-> int_to_customer_code(next_value)]

\* As generate_next_customer_code, stepping down from the greatest code.
generate_next_customer_code_decrementing(db) ==
    IF CodedRows(db) = {}
    THEN [raised |-> FALSE, code |-> int_to_customer_code(0)]
    ELSE LET current_value == customer_code_to_int(MaxCode(db))
             next_value == current_value - 1
         IN  IF current_value = InvalidCode
             THEN [raised |-> TRUE, error |-> "Codice cliente non valido."]
             ELSE IF next_value >= MAX_CUSTOMER_CODES \/ next_value < 0
             THEN [raised |-> TRUE,
                   error |-> "Limite massimo per i codici cliente raggiunto."]
             ELSE [raised |-> FALSE, code |-> int_to_customer_code(next_value)]

\* Returns [raised |-> FALSE, code |-> c] or [raised |-> TRUE, error |-> e].
generate_next_customer_code(db) ==
    IF CodedRows(db) = {}
    THEN [raised |-> FALSE, code |-> int_to_customer_code(0)]
    ELSE LET current_value == customer_code_to_int(MaxCode(db))
             next_value == current_value + 1
         IN  IF current_value = InvalidCode
             THEN [raised |-> TRUE, error |-> "Codice cliente non valido."]
             ELSE IF next_value >= MAX_CUSTOMER_CODES
             THEN [raised |-> TRUE,
                   error |-> "Limite massimo per i codici cliente raggiunto."]
             ELSE [raised |-> FALSE, code |-> int_to_customer_code(next_value)]

-----------------------------------------------------------------------------
(* The customers table *)

\* As UniqueCodeViolated, on a table whose code column is not UNIQUE.
UniqueCodeNotEnforced(db, code) == FALSE

\* The schema's UNIQUE(code): another row already holds this non-NULL code.
UniqueCodeViolated(db, code) ==
    code # NULL /\ \E r \in db : r.code = code

\* INSERT INTO customers (code, name, email, phone, address) VALUES (?, ?, ?, ?, ?)
\* with the id the store assigns.
InsertCustomer(db, id, code, name, email, phone, address) ==
    db \cup {[id |-> id, code |-> code, name |-> name, email |-> email,
              phone |-> phone, address |-> address]}

\* fetchone() of a SELECT without ORDER BY: SQLite scans by rowid.
FirstRow(rows) == CHOOSE r \in rows : \A q \in rows : r.id <= q.id

NoRow == [id |-> 0]

-----------------------------------------------------------------------------
(* services/customer_sync.py *)

\* Customer.from_candidate (source_event_id is carried but never stored).
from_candidate(candidate) ==
    [name |-> Strip(candidate.name),
     email |-> OrNone(Strip(OrEmpty(candidate.email))),
     phone |-> OrNone(Strip(OrEmpty(candidate.phone))),
     address |-> OrNone(Strip(OrEmpty(candidate.address)))]

\* Python truthiness of an Optional[str].
Truthy(v) == v # NULL /\ v # <<>>

EmailRows(db, customer) ==
    {r \in db : r.email # NULL /\ Lower(r.email) = Lower(customer.email)}

PhoneRows(db, customer) == {r \in db : r.phone = customer.phone}

NameRows(db, customer) ==
    {r \in db : r.name # NULL /\ Lower(r.name) = Lower(customer.name)}

\* As _find_existing, looking the name up before the email and the phone.
_find_existing_name_first(db, customer) ==
    IF NameRows(db, customer) # {}
    THEN FirstRow(NameRows(db, customer))
    ELSE IF Truthy(customer.email) /\ EmailRows(db, customer) # {}
    THEN FirstRow(EmailRows(db, customer))
    ELSE IF Truthy(customer.phone) /\ PhoneRows(db, customer) # {}
    THEN FirstRow(PhoneRows(db, customer))
    ELSE NoRow

\* As _find_existing, without the final lookup by name.
_find_existing_without_name(db, customer) ==
    IF Truthy(customer.email) /\ EmailRows(db, customer) # {}
    THEN FirstRow(EmailRows(db, customer))
    ELSE IF Truthy(customer.phone) /\ PhoneRows(db, customer) # {}
    THEN FirstRow(PhoneRows(db, customer))
    ELSE NoRow

_find_existing(db, customer) ==
    IF Truthy(customer.email) /\ EmailRows(db, customer) # {}
    THEN FirstRow(EmailRows(db, customer))
    ELSE IF Truthy(customer.phone) /\ PhoneRows(db, customer) # {}
    THEN FirstRow(PhoneRows(db, customer))
    ELSE IF NameRows(db, customer) # {}
    THEN FirstRow(NameRows(db, customer))
    ELSE NoRow

SyncFields == {"name", "email", "phone", "address"}

\* As UpdatedFields, leaving out the fields the candidate has no value for.
UpdatedFieldsWithValue(existing, customer) ==
    {f \in SyncFields : /\ customer[f] # NULL
                        /\ Strip(OrEmpty(existing[f])) # Strip(OrEmpty(customer[f]))}

\* The fields of the updates dict: those whose stripped values differ.
UpdatedFields(existing, customer) ==
    {f \in SyncFields : Strip(OrEmpty(existing[f])) # Strip(OrEmpty(customer[f]))}

\* As ApplyUpdate, writing all four fields of the candidate.
ApplyUpdateAllFields(db, existing, customer, fields) ==
    {IF r.id = existing.id
     THEN [f \in DOMAIN r |-> IF f \in SyncFields THEN customer[f] ELSE r[f]]
     ELSE r : r \in db}

\* UPDATE customers SET <updates> WHERE id = existing['id']
ApplyUpdate(db, existing, customer, fields) ==
    {IF r.id = existing.id
     THEN [f \in DOMAIN r |-> IF f \in fields THEN customer[f] ELSE r[f]]
     ELSE r : r \in db}

\* As SyncOne, letting the allocator's ValueError end the run.
SyncOneAbortOnFailure(st, customer) ==
    LET existing == _find_existing(st.db, customer)
        alloc == generate_next_customer_code(st.db)
    IN  IF existing.id = NoRow.id /\ alloc.raised
        THEN [st EXCEPT !.stats.total = @ + 1, !.raised = "ValueError"]
        ELSE IF existing.id = NoRow.id
        THEN [st EXCEPT
               !.db = InsertCustomer(st.db, st.nextId, alloc.code,
                          customer.name, customer.email, customer.phone,
                          customer.address),
               !.nextId = @ + 1,
               !.stats.total = @ + 1, !.stats.created = @ + 1,
               !.steps = Append(@, [customer |-> customer, before |-> st.db,
                                    outcome |-> "created",
                                    id |-> st.nextId, code |-> alloc.code])]
        ELSE [st EXCEPT
               !.stats.total = @ + 1, !.stats.skipped = @ + 1,
               !.steps = Append(@, [customer |-> customer, before |-> st.db,
                                    outcome |-> "skipped", id |-> existing.id])]

\* As SyncOne, not counting the candidate the allocator raised for.
SyncOneUncountedFailure(st, customer) ==
    LET existing == _find_existing(st.db, customer)
        alloc == generate_next_customer_code(st.db)
        total == [st.stats EXCEPT !.total = @ + 1]
    IN  IF existing.id = NoRow.id /\ alloc.raised
        THEN [st EXCEPT
               !.stats = total,
               !.steps = Append(@, [customer |-> customer, before |-> st.db,
                                    outcome |-> "alloc_failed",
                                    error |-> alloc.error])]
        ELSE IF existing.id = NoRow.id
        THEN [st EXCEPT
               !.db = InsertCustomer(st.db, st.nextId, alloc.code,
                          customer.name, customer.email, customer.phone,
                          customer.address),
               !.nextId = @ + 1,
               !.stats = [total EXCEPT !.created = @ + 1],
               !.steps = Append(@, [customer |-> customer, before |-> st.db,
                                    outcome |-> "created",
                                    id |-> st.nextId, code |-> alloc.code])]
        ELSE [st EXCEPT
               !.stats = [total EXCEPT !.skipped = @ + 1],
               !.steps = Append(@, [customer |-> customer, before |-> st.db,
                                    outcome |-> "skipped", id |-> existing.id])]

\* One iteration of the for loop of sync_customers. st is the run so far:
\* the rows the connection sees, the store's id counter, the stats, one
\* record per candidate processed and the exception that ended the run.
SyncOne(st, customer) ==
    LET existing == _find_existing(st.db, customer)
        total == [st.stats EXCEPT !.total = @ + 1]
    IN  IF existing.id = NoRow.id
        THEN LET alloc == generate_next_customer_code(st.db)
             IN  IF alloc.raised
                 THEN [st EXCEPT
                        !.stats = [total EXCEPT !.skipped = @ + 1],
                        !.steps = Append(@, [customer |-> customer, before |-> st.db,
                                             outcome |-> "alloc_failed",
                                             error |-> alloc.error])]
                 ELSE IF UniqueCodeViolated(st.db, alloc.code)
                 THEN [st EXCEPT !.stats = total, !.raised = "IntegrityError"]
                 ELSE [st EXCEPT
                        !.db = InsertCustomer(st.db, st.nextId, alloc.code,
                                   customer.name, customer.email, customer.phone,
                                   customer.address),
                        !.nextId = @ + 1,
                        !.stats = [total EXCEPT !.created = @ + 1],
                        !.steps = Append(@, [customer |-> customer, before |-> st.db,
                                             outcome |-> "created",
                                             id |-> st.nextId, code |-> alloc.code])]
        ELSE LET updates == UpdatedFields(existing, customer)
             IN  IF updates # {}
                 THEN [st EXCEPT
                        !.db = ApplyUpdate(st.db, existing, customer, updates),
                        !.stats = [total EXCEPT !.updated = @ + 1],
                        !.steps = Append(@, [customer |-> customer, before |-> st.db,
                                             outcome |-> "updated",
                                             id |-> existing.id, fields |-> updates])]
                 ELSE [st EXCEPT
                        !.stats = [total EXCEPT !.skipped = @ + 1],
                        !.steps = Append(@, [customer |-> customer, before |-> st.db,
                                             outcome |-> "skipped",
                                             id |-> existing.id])]

\* As SyncLoop, with a matching that does not see the rows the run created
\* (the lookups of a connection other than the one that inserts).
RECURSIVE SyncLoopStaleRead(_, _)
SyncLoopStaleRead(st, rest) ==
    IF rest = <<>> \/ st.raised # "" THEN st
    ELSE LET created == {r \in st.db : \E k \in DOMAIN st.steps :
                            /\ st.steps[k].outcome = "created"
                            /\ st.steps[k].id = r.id}
             next == SyncOne([st EXCEPT !.db = @ \ created], Head(rest))
         IN  SyncLoopStaleRead([next EXCEPT !.db = @ \cup created], Tail(rest))

RECURSIVE SyncLoop(_, _)
SyncLoop(st, rest) ==
    IF rest = <<>> \/ st.raised # "" THEN st
    ELSE SyncLoop(SyncOne(st, Head(rest)), Tail(rest))

\* sync_customers on a connection that sees db; the result's db is what
\* connection.commit() publishes (nothing when an exception ended the run).
sync_customers(db, id, list) ==
    SyncLoop([db |-> db, nextId |-> id,
              stats |-> [total |-> 0, created |-> 0, updated |-> 0, skipped |-> 0],
              steps |-> <<>>, raised |-> ""], list)

RECURSIVE NamedCustomers(_)
NamedCustomers(candidates) ==
    IF candidates = <<>> THEN <<>>
    ELSE IF Head(candidates).name # NULL /\ Head(candidates).name # <<>>
    THEN <<from_candidate(Head(candidates))>> \o NamedCustomers(Tail(candidates))
    ELSE NamedCustomers(Tail(candidates))

sync_candidates(db, id, candidates) ==
    sync_customers(db, id, NamedCustomers(candidates))

-----------------------------------------------------------------------------
(* Bounds and inputs *)

\* Rows ever inserted in one behaviour (the id counter stops here).
MaxId == 3
\* Candidates in one calendar window.
MaxBatch == 3
\* Candidates in the window while the customer routes run beside the sync.
MaxRouteBatch == 1

Code(a, b, c, d) == <<a, b, c, d>>

Row(id, code, name, email, phone, address) ==
    [id |-> id, code |-> code, name |-> name, email |-> email,
     phone |-> phone, address |-> address]

\* Stores the program is started on: empty; two customers (one written with
\* an upper-case email and a padded phone); one code left; the code before a
\* carry; rows that predate the code column.
InitStores ==
    { {},
      { Row(1, Code("a","a","a","a"), <<"m">>, <<"a">>, <<"2">>, <<"x">>),
        Row(2, Code("a","a","a","b"), <<"l">>, <<"B">>, <<"1", " ">>, NULL) },
      { Row(1, Code("z","z","z","y"), <<"k">>, NULL, <<"1">>, NULL) },
      { Row(1, Code("a","a","z","z"), <<"l">>, <<"b">>, NULL, NULL) },
      { Row(1, NULL, <<"m">>, <<"a">>, NULL, NULL),
        Row(2, <<>>, <<"l">>, NULL, NULL, NULL) } }

\* Stores whose greatest code is malformed: too short; a character that is
\* no letter.
CorruptStores ==
    { { Row(1, <<"z", "z">>, <<"k">>, NULL, NULL, NULL) },
      { Row(1, Code("a", "a", "a", "a"), <<"k">>, NULL, NULL, NULL),
        Row(2, Code("a", "b", "1", "a"), <<"l">>, <<"b">>, NULL, NULL) } }

MaxIdOf(db) == IF db = {} THEN 0 ELSE CHOOSE n \in {r.id : r \in db} :
                                        \A r \in db : r.id <= n

\* CalendarCustomerCandidate values (notes, event_id, raw_event carry no logic).
Candidates ==
    [name : {<<"m">>, <<" ", "L">>},
     email : {NULL, <<"b">>},
     phone : {NULL, <<"1">>},
     address : {<<"x">>}]
    \cup
    {[name |-> <<"m">>, email |-> <<"a">>, phone |-> <<"1">>,
      address |-> <<"x">>],
     [name |-> <<"m">>, email |-> NULL, phone |-> NULL, address |-> NULL]}

RouteCandidates ==
    [name : {<<"m">>, <<>>}, email : {<<"b">>}, phone : {NULL},
     address : {NULL}]

SeqsUpTo(S, n) == UNION {[1..k -> S] : k \in 0..n}

\* Events in one window, and attendees of one event.
MaxEvents == 2
MaxAttendees == 2

\* Attendees: people with and without an email (one padded) and a display
\* name (one blank), and a room that has both.
Attendees ==
    [resource : {FALSE},
     email : {NULL, <<"e">>, <<"f", " ">>},
     displayName : {NULL, <<" ">>, <<"n">>, <<"o">>}]
    \cup
    {[resource |-> TRUE, email |-> <<"e">>, displayName |-> <<"n">>]}

\* Descriptions: none; an email; a phone and an upper-case email on two
\* lines; an email keyword with nothing on its line, then an address.
Descriptions ==
    {NULL,
     <<"e", "m", "a", "i", "l", ":", "d">>,
     <<"T", "e", "l", " ", "=", " ", "1", "\n",
       "E", "M", "A", "I", "L", "-", "d", " ">>,
     <<"e", "m", "a", "i", "l", ":", "\n",
       "i", "n", "d", "i", "r", "i", "z", "z", "o", " ", ":", "y">>}

\* Events without their id.
EventBodies ==
    [summary : {NULL, <<" ">>, <<"s">>},
     attendees : SeqsUpTo(Attendees, MaxAttendees),
     description : Descriptions,
     location : {NULL, <<"x">>}]

\* The events of the lists: no description, no location, one attendee at
\* most: the room, or a person without an email.
ListEventBodies ==
    {b \in [summary : {NULL, <<" ">>, <<"s">>},
            attendees : SeqsUpTo(Attendees, 1),
            description : {NULL},
            location : {NULL}] :
        \A i \in DOMAIN b.attendees :
            b.attendees[i].resource \/ b.attendees[i].email = NULL}

\* The API gives every event of a window an id of its own.
WithIds(bodies) ==
    [i \in DOMAIN bodies |->
        [id |-> i, summary |-> bodies[i].summary,
         attendees |-> bodies[i].attendees,
         description |-> bodies[i].description,
         location |-> bodies[i].location]]

\* request.form of add_customer and edit_customer.
Forms ==
    [name : {<<"k", " ">>, <<>>}, email : {<<>>, <<"a">>},
     phone : {<<>>}, address : {<<>>}]

CodecIdle == [pc |-> "idle"]

\* Requests that write customers at the same time, each on its own connection.
MaxWriters == 2

Writers == 1..MaxWriters
NoWriter == 0

ZeroStats == [total |-> 0, created |-> 0, updated |-> 0, skipped |-> 0]

\* A connection between requests: nothing read, no open transaction.
ConnIdle ==
    [pc |-> "idle", result |-> "", todo |-> <<>>, code |-> NULL,
     existing |-> NoRow, fields |-> {}, stats |-> ZeroStats,
     txDb |-> {}, txNextId |-> 0]

\* request.form of the add_customer requests that race.
WriterForms ==
    [name : {<<"k">>, <<>>}, email : {<<>>}, phone : {<<>>}, address : {<<>>}]

\* The codec is tried on codes over the first CodecLetters of these letters
\* and on the integers within CodecInts of a power of the base.
CodecLetters == 3
CodecInts == 30

LetterPool == <<"a", "z", "b", "y", "m", "n">>

SampleCodes == [1..CUSTOMER_CODE_LENGTH -> {LetterPool[i] : i \in 1..CodecLetters}]

SampleInts ==
    {n \in UNION {(Power(Len(CUSTOMER_CODE_ALPHABET), k) - CodecInts)
                      ..(Power(Len(CUSTOMER_CODE_ALPHABET), k) + CodecInts) :
                  k \in 0..CUSTOMER_CODE_LENGTH} :
        0 <= n /\ n < MAX_CUSTOMER_CODES}

HistInit(db) ==
    [issued |-> {r.code : r \in CodedRows(db)}, topDeleted |-> FALSE, run |-> <<>>]

\* The codes of the rows the steps of a sync run created, in order.
RECURSIVE CreatedCodes(_)
CreatedCodes(steps) ==
    IF steps = <<>> THEN <<>>
    ELSE (IF Head(steps).outcome = "created" THEN <<Head(steps).code>> ELSE <<>>)
         \o CreatedCodes(Tail(steps))

SeqRange(q) == {q[i] : i \in DOMAIN q}

HistAfterCreate(codes) ==
    [hist EXCEPT !.issued = @ \cup SeqRange(codes), !.run = @ \o codes]

-----------------------------------------------------------------------------
(* app.py: the customer routes, one request each *)

\* POST /customers/new
add_customer(form) ==
    LET name == Strip(form.name)
        email == Strip(form.email)
        phone == Strip(form.phone)
        address == Strip(form.address)
        alloc == generate_next_customer_code(customers)
    IN  /\ nextId <= MaxId
        /\ IF name = <<>>
           THEN /\ last' = [op |-> "add", before |-> customers,
                            outcome |-> "name_required"]
                /\ UNCHANGED <<customers, nextId, hist>>
           ELSE IF alloc.raised
           THEN /\ last' = [op |-> "add", before |-> customers,
                            outcome |-> "alloc_failed", error |-> alloc.error]
                /\ UNCHANGED <<customers, nextId, hist>>
           ELSE IF UniqueCodeViolated(customers, alloc.code)
           THEN /\ last' = [op |-> "add", before |-> customers,
                            outcome |-> "IntegrityError"]
                /\ UNCHANGED <<customers, nextId, hist>>
           ELSE /\ customers' = InsertCustomer(customers, nextId, alloc.code, name,
                                    OrNone(email), OrNone(phone), OrNone(address))
                /\ nextId' = nextId + 1
                /\ last' = [op |-> "add", before |-> customers,
                            outcome |-> "created", id |-> nextId,
                            code |-> alloc.code]
                /\ hist' = HistAfterCreate(<<alloc.code>>)
        /\ UNCHANGED <<codec, calendar, conn, dbLock>>
        /\ UNCHANGED restVars

\* POST /customers/<customer_id>/delete
delete_customer(customer_id) ==
    LET found == {r \in customers : r.id = customer_id}
    IN  /\ IF found = {}
           THEN /\ last' = [op |-> "delete", before |-> customers,
                            outcome |-> "not_found"]
                /\ UNCHANGED <<customers, hist>>
           ELSE /\ customers' = customers \ found
                /\ last' = [op |-> "delete", before |-> customers,
                            outcome |-> "deleted", id |-> customer_id]
                /\ hist' = [hist EXCEPT
                              !.run = <<>>,
                              !.topDeleted = @ \/
                                  \E r \in found : /\ r \in CodedRows(customers)
                                                   /\ r.code = MaxCode(customers)]
        /\ UNCHANGED <<codec, nextId, calendar, conn, dbLock>>
        /\ UNCHANGED restVars

\* POST /customers/<customer_id>/edit
edit_customer(customer_id, form) ==
    LET found == {r \in customers : r.id = customer_id}
        name == Strip(form.name)
        email == Strip(form.email)
        phone == Strip(form.phone)
        address == Strip(form.address)
    IN  /\ IF found = {}
           THEN /\ last' = [op |-> "edit", before |-> customers,
                            outcome |-> "not_found"]
                /\ UNCHANGED customers
           ELSE IF name = <<>>
           THEN /\ last' = [op |-> "edit", before |-> customers,
                            outcome |-> "name_required"]
                /\ UNCHANGED customers
           ELSE /\ customers' =
                     {IF r.id = customer_id
                      THEN [r EXCEPT !.name = name, !.email = OrNone(email),
                                     !.phone = OrNone(phone),
                                     !.address = OrNone(address)]
                      ELSE r : r \in customers}
                /\ last' = [op |-> "edit", before |-> customers,
                            outcome |-> "updated", id |-> customer_id]
        /\ UNCHANGED <<codec, nextId, calendar, hist, conn, dbLock>>
        /\ UNCHANGED restVars

\* What the run before this one did, when the last request was a committed
\* sync run (of the same window: the window does not change).
PrevRun ==
    IF last.op = "sync" /\ last.outcome = "committed"
    THEN [ran |-> TRUE, stats |-> last.stats,
          outcomes |-> [i \in DOMAIN last.steps |-> last.steps[i].outcome]]
    ELSE [ran |-> FALSE]

\* One run of sync_candidates over the calendar window (the last statements
\* of run_calendar_sync and of the command-line job), on a connection of its
\* own.
SyncCandidates ==
    \E run \in {sync_candidates(customers, nextId, calendar)} :
        /\ run.nextId <= MaxId + 1
        /\ IF run.raised # ""
           THEN /\ last' = [op |-> "sync", before |-> customers,
                            batch |-> calendar, outcome |-> run.raised]
                /\ UNCHANGED <<customers, nextId, hist>>
           ELSE /\ customers' = run.db
                /\ nextId' = run.nextId
                /\ last' = [op |-> "sync", before |-> customers,
                            batch |-> calendar, outcome |-> "committed",
                            stats |-> run.stats, steps |-> run.steps,
                            prev |-> PrevRun]
                /\ hist' = HistAfterCreate(CreatedCodes(run.steps))
        /\ UNCHANGED <<codec, calendar, conn, dbLock>>
        /\ UNCHANGED restVars

-----------------------------------------------------------------------------
(* add_customer and sync_customers statement by statement, on connections   *)
(* of their own. A SELECT outside a transaction reads the committed rows;   *)
(* the first INSERT or UPDATE of a connection opens its transaction and     *)
(* takes the write lock, held until commit() or until the connection is     *)
(* closed after an exception (close_db rolls back).                         *)

RowById(db, id) == CHOOSE r \in db : r.id = id

\* The rows and the id counter the connection of w reads.
View(w) == IF dbLock = w THEN conn[w].txDb ELSE customers
ViewNextId(w) == IF dbLock = w THEN conn[w].txNextId ELSE nextId

\* Another connection holds the write lock: a write of w waits (sqlite3's
\* busy timeout) and goes on when the lock is free, or gives up (Timeout).
Busy(w) == dbLock # NoWriter /\ dbLock # w

\* The request of w ends; an open transaction of w is rolled back.
Finish(w, result) ==
    /\ conn' = [conn EXCEPT ![w] = [ConnIdle EXCEPT !.result = result,
                                                    !.code = conn[w].code]]
    /\ dbLock' = IF dbLock = w THEN NoWriter ELSE dbLock

WriterFrame == UNCHANGED <<codec, calendar, last, hist, restVars>>

\* POST /customers/new arrives: the form is read.
BeginAdd(w, form) ==
    /\ conn[w].pc = "idle"
    /\ nextId <= MaxId
    /\ IF Strip(form.name) = <<>>
       THEN conn' = [conn EXCEPT ![w] = [ConnIdle EXCEPT !.result = "name_required"]]
       ELSE conn' = [conn EXCEPT ![w] =
                        [ConnIdle EXCEPT !.pc = "add_alloc",
                                         !.todo = <<[name |-> Strip(form.name),
                                                     email |-> OrNone(Strip(form.email)),
                                                     phone |-> OrNone(Strip(form.phone)),
                                                     address |-> OrNone(Strip(form.address))]>>]]
    /\ UNCHANGED <<customers, nextId, dbLock>>
    /\ WriterFrame

\* code = generate_next_customer_code(db)
AddAlloc(w) ==
    /\ conn[w].pc = "add_alloc"
    /\ LET alloc == generate_next_customer_code(View(w))
       IN  IF alloc.raised
           THEN Finish(w, "alloc_failed")
           ELSE /\ conn' = [conn EXCEPT ![w].pc = "add_insert", ![w].code = alloc.code]
                /\ UNCHANGED dbLock
    /\ UNCHANGED <<customers, nextId>>
    /\ WriterFrame

\* db.execute('INSERT INTO customers ...'): sqlite3.IntegrityError, which
\* add_customer does not catch, when the code is taken by now.
AddInsert(w) ==
    /\ conn[w].pc = "add_insert"
    /\ ~Busy(w)
    /\ IF UniqueCodeViolated(View(w), conn[w].code)
       THEN Finish(w, "IntegrityError")
       ELSE LET c == conn[w].todo[1]
            IN  /\ conn' = [conn EXCEPT
                              ![w].pc = "add_commit",
                              ![w].txDb = InsertCustomer(View(w), ViewNextId(w),
                                              conn[w].code, c.name, c.email,
                                              c.phone, c.address),
                              ![w].txNextId = ViewNextId(w) + 1]
                /\ dbLock' = w
    /\ UNCHANGED <<customers, nextId>>
    /\ WriterFrame

\* db.commit()
Commit(w) ==
    /\ conn[w].pc \in {"add_commit", "sync_commit"}
    /\ IF dbLock = w
       THEN /\ customers' = conn[w].txDb
            /\ nextId' = conn[w].txNextId
            /\ hist' = HistAfterCreate(
                          [i \in 1..(conn[w].txNextId - nextId) |->
                              RowById(conn[w].txDb, nextId + i - 1).code])
       ELSE UNCHANGED <<customers, nextId, hist>>
    /\ Finish(w, "committed")
    /\ UNCHANGED <<codec, calendar, last>>
    /\ UNCHANGED restVars

\* A write that waited for the lock longer than the busy timeout:
\* sqlite3.OperationalError (database is locked), caught by neither handler.
Timeout(w) ==
    /\ conn[w].pc \in {"add_insert", "sync_insert", "sync_update"}
    /\ Busy(w)
    /\ Finish(w, "OperationalError")
    /\ UNCHANGED <<customers, nextId>>
    /\ WriterFrame

\* run_calendar_sync reaches sync_candidates with the window's candidates.
BeginSync(w) ==
    /\ conn[w].pc = "idle"
    /\ nextId <= MaxId
    /\ conn' = [conn EXCEPT ![w] =
                    [ConnIdle EXCEPT !.pc = "sync_find",
                                     !.todo = NamedCustomers(calendar)]]
    /\ UNCHANGED <<customers, nextId, dbLock>>
    /\ WriterFrame

\* The head of the for loop: stats['total'] += 1, _find_existing, and for a
\* matched candidate the updates dict computed from the row just read.
SyncFind(w) ==
    /\ conn[w].pc = "sync_find"
    /\ IF conn[w].todo = <<>>
       THEN conn' = [conn EXCEPT ![w].pc = "sync_commit"]
       ELSE LET customer == Head(conn[w].todo)
                existing == _find_existing(View(w), customer)
                updates == UpdatedFields(existing, customer)
            IN  IF existing.id = NoRow.id
                THEN conn' = [conn EXCEPT ![w].pc = "sync_alloc",
                                          ![w].stats.total = @ + 1]
                ELSE IF updates # {}
                THEN conn' = [conn EXCEPT ![w].pc = "sync_update",
                                          ![w].existing = existing,
                                          ![w].fields = updates,
                                          ![w].stats.total = @ + 1]
                ELSE conn' = [conn EXCEPT ![w].todo = Tail(@),
                                          ![w].stats.total = @ + 1,
                                          ![w].stats.skipped = @ + 1]
    /\ UNCHANGED <<customers, nextId, dbLock>>
    /\ WriterFrame

\* code = generate_next_customer_code(self.connection), ValueError caught.
SyncAlloc(w) ==
    /\ conn[w].pc = "sync_alloc"
    /\ LET alloc == generate_next_customer_code(View(w))
       IN  IF alloc.raised
           THEN conn' = [conn EXCEPT ![w].pc = "sync_find", ![w].todo = Tail(@),
                                     ![w].stats.skipped = @ + 1]
           ELSE conn' = [conn EXCEPT ![w].pc = "sync_insert", ![w].code = alloc.code]
    /\ UNCHANGED <<customers, nextId, dbLock>>
    /\ WriterFrame

\* cursor.execute('INSERT INTO customers ...') of sync_customers.
SyncInsert(w) ==
    /\ conn[w].pc = "sync_insert"
    /\ ~Busy(w)
    /\ IF UniqueCodeViolated(View(w), conn[w].code)
       THEN Finish(w, "IntegrityError")
       ELSE LET c == Head(conn[w].todo)
            IN  /\ conn' = [conn EXCEPT
                              ![w].pc = "sync_find",
                              ![w].todo = Tail(@),
                              ![w].stats.created = @ + 1,
                              ![w].txDb = InsertCustomer(View(w), ViewNextId(w),
                                              conn[w].code, c.name, c.email,
                                              c.phone, c.address),
                              ![w].txNextId = ViewNextId(w) + 1]
                /\ dbLock' = w
    /\ UNCHANGED <<customers, nextId>>
    /\ WriterFrame

\* cursor.execute('UPDATE customers SET ... WHERE id = ?') of sync_customers.
SyncUpdate(w) ==
    /\ conn[w].pc = "sync_update"
    /\ ~Busy(w)
    /\ conn' = [conn EXCEPT
                  ![w].pc = "sync_find",
                  ![w].todo = Tail(@),
                  ![w].stats.updated = @ + 1,
                  ![w].txDb = ApplyUpdate(View(w), conn[w].existing,
                                          Head(conn[w].todo), conn[w].fields),
                  ![w].txNextId = ViewNextId(w)]
    /\ dbLock' = w
    /\ UNCHANGED <<customers, nextId>>
    /\ WriterFrame

-----------------------------------------------------------------------------
(* The two conversions, applied one after the other *)

CodecDecode ==
    /\ codec.pc = "start" /\ codec.kind = "code"
    /\ codec' = [codec EXCEPT !.pc = "decoded",
                               !.da = customer_code_to_int(codec.a),
                               !.db = customer_code_to_int(codec.b)]
    /\ UNCHANGED <<customers, nextId, calendar, last, hist, conn, dbLock>>
    /\ UNCHANGED restVars

CodecReencode ==
    /\ codec.pc = "decoded"
    /\ codec' = [codec EXCEPT !.pc = "done",
                               !.out = int_to_customer_code(codec.da)]
    /\ UNCHANGED <<customers, nextId, calendar, last, hist, conn, dbLock>>
    /\ UNCHANGED restVars

CodecEncode ==
    /\ codec.pc = "start" /\ codec.kind = "int"
    /\ codec' = [codec EXCEPT !.pc = "encoded",
                               !.out = int_to_customer_code(codec.n)]
    /\ UNCHANGED <<customers, nextId, calendar, last, hist, conn, dbLock>>
    /\ UNCHANGED restVars

CodecRedecode ==
    /\ codec.pc = "encoded"
    /\ codec' = [codec EXCEPT !.pc = "done",
                               !.da = customer_code_to_int(codec.out)]
    /\ UNCHANGED <<customers, nextId, calendar, last, hist, conn, dbLock>>
    /\ UNCHANGED restVars

-----------------------------------------------------------------------------
(* The OAuth wrapper (auth/google_calendar.py) and run_calendar_sync        *)
(* (services/calendar_sync.py). The files on disk are env: the client       *)
(* secrets file exists or not, and the saved token is missing, valid,       *)
(* expired with a refresh token ("refreshable") or otherwise unusable       *)
(* ("stale"). Google's servers and the interactive consent flow answer or   *)
(* fail: both outcomes are kept.                                            *)

TokenStates == {"missing", "valid", "refreshable", "stale"}
Envs == [credentials : BOOLEAN, token : TokenStates]

\* The keyword-only parameters of GoogleCalendarOAuth.__init__.
OAuthInitKeywords == {"run_console", "local_server_port"}

\* The keywords with which the scheduler and the admin page build the wrapper.
SchedulerOAuthKeywords == {"run_console", "allow_interactive"}

\* GoogleCalendarOAuth(...): a keyword the constructor does not declare is a
\* TypeError of the call.
GoogleCalendarOAuth(keywords) ==
    IF keywords \subseteq OAuthInitKeywords
    THEN [raised |-> FALSE]
    ELSE [raised |-> TRUE, error |-> "TypeError"]

\* authorize(): the outcomes of one call, each with the token file it leaves.
authorize(e) ==
    IF e.token = "valid"
    THEN {[raised |-> FALSE, error |-> "", token |-> "valid"]}
    ELSE IF e.token = "refreshable"
    THEN {[raised |-> FALSE, error |-> "", token |-> "valid"],
          [raised |-> TRUE, error |-> "RefreshError", token |-> e.token]}
    ELSE IF ~e.credentials
    THEN {[raised |-> TRUE, error |-> "FileNotFoundError", token |-> e.token]}
    ELSE {[raised |-> FALSE, error |-> "", token |-> "valid"],
          [raised |-> TRUE, error |-> "FlowError", token |-> e.token]}

NoRun == [raised |-> "", stats |-> ZeroStats, steps |-> <<>>]

\* run_calendar_sync(db, oauth, ...): fetch_events authorizes and lists the
\* events, extract_customers gives the candidates, sync_candidates writes the
\* store. Each outcome tells whether the events were requested (fetched) and
\* whether the store was read or written (synced).
run_calendar_sync(db, id, e, candidates) ==
    UNION {
        IF a.raised
        THEN {[raised |-> TRUE, error |-> a.error, token |-> a.token,
               fetched |-> FALSE, synced |-> FALSE, run |-> NoRun]}
        ELSE {[raised |-> TRUE, error |-> "HttpError", token |-> a.token,
               fetched |-> TRUE, synced |-> FALSE, run |-> NoRun]}
             \cup
             {[raised |-> run.raised # "", error |-> run.raised, token |-> a.token,
               fetched |-> TRUE, synced |-> TRUE, run |-> run] :
                 run \in {sync_candidates(db, id, candidates)}}
        : a \in authorize(e)}

-----------------------------------------------------------------------------
(* CalendarSyncScheduler (services/calendar_sync_scheduler.py): one thread  *)
(* calls start() and stop(); every start() that finds no live worker        *)
(* spawns a worker thread running _worker.                                  *)

MaxWorkers == 2
WorkerIds == 1..MaxWorkers
NoThread == 0

\* A worker: its position in _worker, and whether an exception is leaving
\* _execute_sync.
WorkerUnborn == [pc |-> "unborn", raising |-> FALSE]

\* The scheduler after __init__: no thread, the stop event clear, the lock
\* free (lock is the worker that acquired it, NoThread when free). Observers:
\* the last call of start() or stop() and whether it returned at its first
\* test, and the last tick that ended: its worker, what it logged, what the
\* tick before it logged, and how many times it called run_calendar_sync.
SchedNew ==
    [thread |-> NoThread, stop_event |-> FALSE, lock |-> NoThread,
     caller |-> "idle", call |-> [op |-> "none", noop |-> FALSE],
     tick |-> [w |-> NoThread, log |-> "none", prev |-> "none", calls |-> 0]]

Call(op, noop) == [op |-> op, noop |-> noop]

Tick(w, log, calls) ==
    [w |-> w, log |-> log, prev |-> sched.tick.log, calls |-> calls]

is_alive(w) == w # NoThread /\ workers[w].pc \notin {"unborn", "dead"}

Unborn == {w \in WorkerIds : workers[w].pc = "unborn"}

\* As start, without the test of the live thread.
start_unconditional ==
    /\ sched.caller = "idle"
    /\ Unborn # {}
    /\ LET w == CHOOSE u \in Unborn : \A v \in Unborn : u <= v
       IN  /\ sched' = [sched EXCEPT !.stop_event = FALSE, !.thread = w,
                                     !.call = Call("start", FALSE)]
           /\ workers' = [workers EXCEPT ![w].pc = "loop"]
    /\ UNCHANGED <<storeVars, env, webVars, inputVars>>

start ==
    /\ sched.caller = "idle"
    /\ IF is_alive(sched.thread)
       THEN /\ sched' = [sched EXCEPT !.call = Call("start", TRUE)]
            /\ UNCHANGED workers
       ELSE /\ Unborn # {}
            /\ LET w == CHOOSE u \in Unborn : \A v \in Unborn : u <= v
               IN  /\ sched' = [sched EXCEPT !.stop_event = FALSE, !.thread = w,
                                             !.call = Call("start", FALSE)]
                   /\ workers' = [workers EXCEPT ![w].pc = "loop"]
    /\ UNCHANGED <<storeVars, env, webVars, inputVars>>

\* stop() up to the join: nothing without a thread, else the event is set.
stop ==
    /\ sched.caller = "idle"
    /\ IF sched.thread = NoThread
       THEN /\ sched' = [sched EXCEPT !.call = Call("stop", TRUE)]
            /\ UNCHANGED workers
       ELSE /\ sched' = [sched EXCEPT !.stop_event = TRUE, !.caller = "join",
                                     !.call = Call("stop", FALSE)]
            /\ UNCHANGED workers
    /\ UNCHANGED <<storeVars, env, webVars, inputVars>>

\* join(timeout=1) returns, because the worker ended or after one second,
\* and stop() forgets the thread.
stop_join ==
    /\ sched.caller = "join"
    /\ sched' = [sched EXCEPT !.thread = NoThread, !.caller = "idle"]
    /\ UNCHANGED <<storeVars, env, workers, webVars, inputVars>>

\* while not self._stop_event.is_set()
worker_loop(w) ==
    /\ workers[w].pc = "loop"
    /\ workers' = [workers EXCEPT
                     ![w].pc = IF sched.stop_event THEN "dead" ELSE "acquire"]
    /\ UNCHANGED <<storeVars, env, sched, webVars, inputVars>>

\* self._stop_event.wait(interval): the interval passes or the event is set.
worker_wait(w) ==
    /\ workers[w].pc = "wait"
    /\ workers' = [workers EXCEPT ![w].pc = "loop"]
    /\ UNCHANGED <<storeVars, env, sched, webVars, inputVars>>

\* As execute_sync_acquire, entering the tick whether the lock is free or not.
execute_sync_acquire_unlocked(w) ==
    /\ workers[w].pc = "acquire"
    /\ sched' = [sched EXCEPT !.lock = w]
    /\ workers' = [workers EXCEPT ![w].pc = "body"]
    /\ UNCHANGED <<storeVars, env, webVars, inputVars>>

\* _execute_sync, its first statement: the non-blocking acquire; a tick that
\* finds the lock held logs and returns.
execute_sync_acquire(w) ==
    /\ workers[w].pc = "acquire"
    /\ IF sched.lock = NoThread
       THEN /\ sched' = [sched EXCEPT !.lock = w]
            /\ workers' = [workers EXCEPT ![w].pc = "body"]
       ELSE /\ workers' = [workers EXCEPT ![w].pc = "wait"]
            /\ sched' = [sched EXCEPT !.tick = Tick(w, "lock_held", 0)]
    /\ UNCHANGED <<storeVars, env, webVars, inputVars>>

\* As except_clauses, with the RuntimeError clause only.
except_clauses_runtime_only(error) ==
    IF error = "RuntimeError" THEN "warning" ELSE "propagated"

\* The except clauses of _execute_sync: RuntimeError is logged as a warning,
\* any other Exception with its traceback. Every error of the model is an
\* Exception.
except_clauses(error) ==
    IF error = "RuntimeError" THEN "warning" ELSE "logged_exception"

NotInvoked(e) ==
    [raised |-> FALSE, error |-> "", token |-> e.token,
     fetched |-> FALSE, synced |-> FALSE, run |-> NoRun]

\* As execute_sync_try, without the test of the credentials file.
execute_sync_try_without_credentials_test(db, id, e, candidates) ==
    IF GoogleCalendarOAuth(SchedulerOAuthKeywords).raised
    THEN {[log |-> except_clauses(GoogleCalendarOAuth(SchedulerOAuthKeywords).error),
           invoked |-> FALSE, out |-> NotInvoked(e)]}
    ELSE {[log |-> IF out.raised THEN except_clauses(out.error) ELSE "completed",
           invoked |-> TRUE, out |-> out] :
             out \in run_calendar_sync(db, id, e, candidates)}

\* The try block of _execute_sync with its except clauses: what the tick
\* logs, whether run_calendar_sync was called, and its outcome.
execute_sync_try(db, id, e, candidates) ==
    IF ~e.credentials
    THEN {[log |-> "credentials_missing", invoked |-> FALSE, out |-> NotInvoked(e)]}
    ELSE IF GoogleCalendarOAuth(SchedulerOAuthKeywords).raised
    THEN {[log |-> except_clauses(GoogleCalendarOAuth(SchedulerOAuthKeywords).error),
           invoked |-> FALSE, out |-> NotInvoked(e)]}
    ELSE {[log |-> IF out.raised THEN except_clauses(out.error) ELSE "completed",
           invoked |-> TRUE, out |-> out] :
             out \in run_calendar_sync(db, id, e, candidates)}

\* The tick between the acquire and the finally clause.
execute_sync_body(w) ==
    /\ workers[w].pc = "body"
    /\ \E r \in execute_sync_try(customers, nextId, env, calendar) :
          /\ workers' = [workers EXCEPT ![w].pc = "finally",
                                        ![w].raising = (r.log = "propagated")]
          /\ sched' = [sched EXCEPT !.tick = Tick(w, r.log, IF r.invoked THEN 1 ELSE 0)]
          /\ env' = [env EXCEPT !.token = r.out.token]
          /\ IF r.out.synced /\ ~r.out.raised
             THEN /\ r.out.run.nextId <= MaxId + 1
                  /\ customers' = r.out.run.db
                  /\ nextId' = r.out.run.nextId
                  /\ last' = [op |-> "sync", before |-> customers,
                              batch |-> calendar, outcome |-> "committed",
                              stats |-> r.out.run.stats, steps |-> r.out.run.steps,
                              prev |-> PrevRun]
                  /\ hist' = HistAfterCreate(CreatedCodes(r.out.run.steps))
             ELSE UNCHANGED <<customers, nextId, last, hist>>
    /\ UNCHANGED <<codec, calendar, conn, dbLock, webVars, inputVars>>

\* As execute_sync_finally, leaving the lock held after the early return for
\* missing credentials.
execute_sync_finally_skipped_on_return(w) ==
    /\ workers[w].pc = "finally"
    /\ sched' = [sched EXCEPT
                   !.lock = IF sched.tick.log = "credentials_missing"
                            THEN @ ELSE NoThread]
    /\ workers' = [workers EXCEPT
                     ![w].pc = IF workers[w].raising THEN "dead" ELSE "wait",
                     ![w].raising = FALSE]
    /\ UNCHANGED <<storeVars, env, webVars, inputVars>>

\* finally: self._lock.release(); an exception no clause caught then leaves
\* _worker and ends the thread.
execute_sync_finally(w) ==
    /\ workers[w].pc = "finally"
    /\ sched' = [sched EXCEPT !.lock = NoThread]
    /\ workers' = [workers EXCEPT
                     ![w].pc = IF workers[w].raising THEN "dead" ELSE "wait",
                     ![w].raising = FALSE]
    /\ UNCHANGED <<storeVars, env, webVars, inputVars>>

\* The client secrets file appears or disappears on disk, the saved token
\* changes, between any two steps.
credentials_change ==
    /\ env' = [env EXCEPT !.credentials = ~@]
    /\ UNCHANGED <<storeVars, sched, workers, webVars, inputVars>>

token_change ==
    /\ \E t \in TokenStates \ {env.token} : env' = [env EXCEPT !.token = t]
    /\ UNCHANGED <<storeVars, sched, workers, webVars, inputVars>>

-----------------------------------------------------------------------------
(* The admin gate (auth.py) and the admin routes of app.py that are not      *)
(* customer routes. current_user is loaded from the users table at every     *)
(* request, so the role is the stored one.                                   *)

Anonymous == 0

\* User.is_admin of the user row with this id.
is_admin(user_id) == users[user_id] = "admin"

\* As admin_required, asking for a login only.
admin_required_login_only(endpoint, view) ==
    IF session = Anonymous
    THEN /\ last' = [op |-> "login_redirect", endpoint |-> endpoint]
         /\ UNCHANGED <<codec, customers, nextId, calendar, hist, conn, dbLock,
                        restVars>>
    ELSE view

\* admin_required(view): login_required sends an anonymous request to the
\* login page; a user who is not an administrator gets the flash message and
\* the redirect to the index; only then the view runs.
admin_required(endpoint, view) ==
    IF session = Anonymous
    THEN /\ last' = [op |-> "login_redirect", endpoint |-> endpoint]
         /\ UNCHANGED <<codec, customers, nextId, calendar, hist, conn, dbLock,
                        restVars>>
    ELSE IF ~is_admin(session)
    THEN /\ last' = [op |-> "forbidden", endpoint |-> endpoint, user |-> session]
         /\ UNCHANGED <<codec, customers, nextId, calendar, hist, conn, dbLock,
                        restVars>>
    ELSE view

\* A successful login of a registered user, and the logout.
login(user_id) ==
    /\ session = Anonymous
    /\ session' = user_id
    /\ UNCHANGED <<storeVars, schedVars, inputVars, users, tickets,
                   ticket_history>>

logout ==
    /\ session # Anonymous
    /\ session' = Anonymous
    /\ UNCHANGED <<storeVars, schedVars, inputVars, users, tickets,
                   ticket_history>>

promote_user(user_id) ==
    /\ IF user_id \notin DOMAIN users
       THEN /\ last' = [op |-> "promote_user", id |-> user_id, flash |-> "error"]
            /\ UNCHANGED users
       ELSE IF users[user_id] = "admin"
       THEN /\ last' = [op |-> "promote_user", id |-> user_id, flash |-> "info"]
            /\ UNCHANGED users
       ELSE /\ users' = [users EXCEPT ![user_id] = "admin"]
            /\ last' = [op |-> "promote_user", id |-> user_id, flash |-> "success"]
    /\ UNCHANGED <<codec, customers, nextId, calendar, hist, conn, dbLock,
                   schedVars, inputVars, tickets, ticket_history, session>>

\* delete_ticket and delete_repair: _delete_ticket_record and a message. The
\* connection does not turn foreign keys on, so the ticket's history rows stay.
delete_ticket(ticket_id) ==
    /\ tickets' = [t \in DOMAIN tickets \ {ticket_id} |-> tickets[t]]
    /\ last' = [op |-> "delete_ticket", id |-> ticket_id,
                flash |-> IF ticket_id \in DOMAIN tickets THEN "success"
                          ELSE "error"]
    /\ UNCHANGED <<codec, customers, nextId, calendar, hist, conn, dbLock,
                   schedVars, inputVars, users, ticket_history, session>>

\* The attributes of a GoogleCalendarOAuth object.
OAuthAttributes ==
    {"client_secrets_file", "token_file", "scopes", "run_console",
     "local_server_port", "_load_credentials_from_disk", "_persist_credentials",
     "authorize", "revoke", "dump_scopes"}

\* What the calendar_sync view does with the request: the exception that
\* ends it (a 500 response), or the response and its flash message, and the
\* outcome of run_calendar_sync when the view called it.
calendar_sync_view(method, db, id, e, candidates) ==
    IF GoogleCalendarOAuth(SchedulerOAuthKeywords).raised
    THEN {[status |-> 500, error |-> GoogleCalendarOAuth(SchedulerOAuthKeywords).error,
           flash |-> "", invoked |-> FALSE, out |-> NotInvoked(e)]}
    ELSE IF "load_saved_credentials" \notin OAuthAttributes
    THEN {[status |-> 500, error |-> "AttributeError",
           flash |-> "", invoked |-> FALSE, out |-> NotInvoked(e)]}
    ELSE IF method = "GET"
    THEN {[status |-> 200, error |-> "", flash |-> "",
           invoked |-> FALSE, out |-> NotInvoked(e)]}
    ELSE IF ~e.credentials
    THEN {[status |-> 200, error |-> "", flash |-> "error",
           invoked |-> FALSE, out |-> NotInvoked(e)]}
    ELSE {[status |-> 200, error |-> "",
           flash |-> IF out.raised THEN "error" ELSE "success",
           invoked |-> TRUE, out |-> out] :
             out \in run_calendar_sync(db, id, e, candidates)}

\* The calendar_sync view (GET shows the page, POST runs the sync).
calendar_sync(method) ==
    /\ \E r \in calendar_sync_view(method, customers, nextId, env, calendar) :
          /\ env' = [env EXCEPT !.token = r.out.token]
          /\ IF r.out.synced /\ ~r.out.raised
             THEN /\ r.out.run.nextId <= MaxId + 1
                  /\ customers' = r.out.run.db
                  /\ nextId' = r.out.run.nextId
                  /\ hist' = HistAfterCreate(CreatedCodes(r.out.run.steps))
             ELSE UNCHANGED <<customers, nextId, hist>>
          /\ last' = [op |-> "calendar_sync", method |-> method, env |-> env,
                      status |-> r.status, error |-> r.error, flash |-> r.flash,
                      invoked |-> r.invoked]
    /\ UNCHANGED <<codec, calendar, conn, dbLock, sched, workers, webVars, inputVars>>

-----------------------------------------------------------------------------
(* services/google_calendar_client.py: from Calendar API events to          *)
(* candidates. An event is its id, summary, attendees, description and      *)
(* location; a key the API left out reads as NULL (dict.get).               *)

\* The keyword alternatives of _FIELD_PATTERNS, in the order of the pattern.
FieldKeywords ==
    [email |-> <<<<"e", "m", "a", "i", "l">>>>,
     phone |-> << <<"t", "e", "l", "e", "f", "o", "n", "o">>,
                  <<"t", "e", "l">>,
                  <<"p", "h", "o", "n", "e">> >>,
     address |-> << <<"i", "n", "d", "i", "r", "i", "z", "z", "o">>,
                    <<"a", "d", "d", "r", "e", "s", "s">> >>]

\* The character class [:=-] of the patterns.
Separators == {":", "=", "-"}

\* \s* from position i: the first position that holds no whitespace.
RECURSIVE SkipSpace(_, _)
SkipSpace(text, i) ==
    IF i <= Len(text) /\ text[i] \in Whitespace
    THEN SkipSpace(text, i + 1)
    ELSE i

\* [^\n]+ from position i: the last position before the next newline.
RECURSIVE LineEnd(_, _)
LineEnd(text, i) ==
    IF i < Len(text) /\ text[i + 1] # "\n" THEN LineEnd(text, i + 1) ELSE i

\* keyword (IGNORECASE) at position i.
KeywordAt(text, i, keyword) ==
    /\ i + Len(keyword) - 1 <= Len(text)
    /\ Lower(SubSeq(text, i, i + Len(keyword) - 1)) = keyword

\* The position of the separator of a match that starts at i, or 0:
\* keyword, \s*, [:=-]. No two alternatives match at one position.
SeparatorOf(text, i, field) ==
    LET ends == {SkipSpace(text, i + Len(FieldKeywords[field][k])) :
                   k \in {k \in DOMAIN FieldKeywords[field] :
                            KeywordAt(text, i, FieldKeywords[field][k])}}
        seps == {j \in ends : j <= Len(text) /\ text[j] \in Separators}
    IN  IF seps = {} THEN 0 ELSE CHOOSE j \in seps : TRUE

\* pattern.search(description): the value group of the leftmost match, NULL
\* when nothing matches. After the separator \s* takes all the whitespace and
\* [^\n]+ the rest of the line; when only whitespace is left the group holds
\* whitespace (or nothing matches): either way the field is not set.
RECURSIVE SearchFrom(_, _, _)
SearchFrom(text, i, field) ==
    IF i > Len(text) THEN NULL
    ELSE LET sep == SeparatorOf(text, i, field)
             first == SkipSpace(text, sep + 1)
         IN  IF sep = 0 THEN SearchFrom(text, i + 1, field)
             ELSE IF first > Len(text) THEN NULL
             ELSE SubSeq(text, first, LineEnd(text, first))

\* _parse_description: the fields whose value is not blank, stripped; a field
\* that is not in the dict reads as NULL (dict.get).
_parse_description(description) ==
    [field \in DOMAIN FieldKeywords |->
        LET value == SearchFrom(description, 1, field)
        IN  IF value = NULL \/ Strip(value) = <<>> THEN NULL ELSE Strip(value)]

\* Python's (a or b) on Optional[str].
Or(a, b) == IF Truthy(a) THEN a ELSE b

\* As AttendeeLoop, without the test of the resource flag.
RECURSIVE AttendeeLoopCountingResources(_, _, _)
AttendeeLoopCountingResources(attendees, email, name) ==
    IF attendees = <<>> THEN [email |-> email, name |-> name]
    ELSE LET attendee == Head(attendees)
             e == Or(email, attendee.email)
             display_name == Strip(OrEmpty(attendee.displayName))
             n == IF name = <<>> /\ display_name # <<>> THEN display_name
                  ELSE name
         IN  IF Truthy(e) /\ n # <<>> THEN [email |-> e, name |-> n]
             ELSE AttendeeLoopCountingResources(Tail(attendees), e, n)

\* The loop over the attendees (lines 99-108): resources are passed over;
\* the first email and the first display name found are kept; the loop ends
\* as soon as both are known.
RECURSIVE AttendeeLoop(_, _, _)
AttendeeLoop(attendees, email, name) ==
    IF attendees = <<>> THEN [email |-> email, name |-> name]
    ELSE LET attendee == Head(attendees)
             e == Or(email, attendee.email)
             display_name == Strip(OrEmpty(attendee.displayName))
             n == IF name = <<>> /\ display_name # <<>> THEN display_name
                  ELSE name
         IN  IF attendee.resource
             THEN AttendeeLoop(Tail(attendees), email, name)
             ELSE IF Truthy(e) /\ n # <<>> THEN [email |-> e, name |-> n]
             ELSE AttendeeLoop(Tail(attendees), e, n)

\* None, where a candidate is expected.
NoCandidate == [none |-> TRUE]

\* The candidate built at lines 120-128 from what the loop found.
CalendarCustomerCandidate(event, found) ==
    LET description == Strip(OrEmpty(event.description))
        location == Strip(OrEmpty(event.location))
        parsed_fields == _parse_description(description)
        email == Or(found.email, parsed_fields.email)
        phone == parsed_fields.phone
        address == Or(parsed_fields.address, location)
    IN  [name |-> Strip(found.name),
         email |-> OrNone(Strip(OrEmpty(email))),
         phone |-> OrNone(Strip(OrEmpty(phone))),
         address |-> OrNone(Strip(OrEmpty(address))),
         event_id |-> event.id]

\* As _event_to_candidate, without the test of the name.
_event_to_candidate_keeping_unnamed(event) ==
    CalendarCustomerCandidate(
        event, AttendeeLoop(event.attendees, NULL, Strip(OrEmpty(event.summary))))

\* _event_to_candidate: the candidate of an event, or None when the event
\* names nobody.
_event_to_candidate(event) ==
    LET summary == Strip(OrEmpty(event.summary))
        found == AttendeeLoop(event.attendees, NULL, summary)
    IN  IF found.name = <<>> THEN NoCandidate
        ELSE CalendarCustomerCandidate(event, found)

\* extract_customers: the candidates of the events, in order.
RECURSIVE extract_customers(_)
extract_customers(evs) ==
    IF evs = <<>> THEN <<>>
    ELSE LET candidate == _event_to_candidate(Head(evs))
         IN  IF candidate = NoCandidate THEN extract_customers(Tail(evs))
             ELSE <<candidate>> \o extract_customers(Tail(evs))

\* One call of extract_customers on the events of the window.
ExtractCustomers ==
    /\ last.op = "none"
    /\ calendar' = extract_customers(events)
    /\ last' = [op |-> "extract_customers", events |-> events]
    /\ UNCHANGED <<codec, customers, nextId, hist, conn, dbLock, restVars>>

-----------------------------------------------------------------------------
(* app.py: ticket_detail, the POST of the details form. The attachments     *)
(* form and GET write neither tickets nor ticket_history.                   *)

TICKET_STATUSES ==
    <<[value |-> <<"o", "p", "e", "n">>,
       label |-> <<"A", "p", "e", "r", "t", "o">>],
      [value |-> <<"i", "n", "_", "p", "r", "o", "g", "r", "e", "s", "s">>,
       label |-> <<"I", "n", " ", "l", "a", "v", "o", "r", "a", "z", "i", "o", "n", "e">>],
      [value |-> <<"c", "l", "o", "s", "e", "d">>,
       label |-> <<"C", "h", "i", "u", "s", "o">>]>>

REPAIR_STATUSES ==
    <<[value |-> <<"a", "c", "c", "e", "t", "t", "a", "z", "i", "o", "n", "e">>,
       label |-> <<"A", "c", "c", "e", "t", "t", "a", "z", "i", "o", "n", "e">>],
      [value |-> <<"d", "i", "a", "g", "n", "o", "s", "t", "i", "c", "a", "t", "o">>,
       label |-> <<"D", "i", "a", "g", "n", "o", "s", "t", "i", "c", "a", "t", "o">>],
      [value |-> <<"p", "r", "e", "v", "e", "n", "t", "i", "v", "o", "_", "p", "r", "o", "n", "t", "o">>,
       label |-> <<"P", "r", "e", "v", "e", "n", "t", "i", "v", "o", " ", "p", "r", "o", "n", "t", "o">>],
      [value |-> <<"p", "r", "e", "v", "e", "n", "t", "i", "v", "o", "_", "a", "c", "c", "e", "t", "t", "a", "t", "o">>,
       label |-> <<"P", "r", "e", "v", "e", "n", "t", "i", "v", "o", " ", "a", "c", "c", "e", "t", "t", "a", "t", "o">>],
      [value |-> <<"i", "n", "t", "e", "r", "v", "e", "n", "t", "o", "_", "c", "o", "m", "p", "l", "e", "t", "a", "t", "o">>,
       label |-> <<"I", "n", "t", "e", "r", "v", "e", "n", "t", "o", " ", "c", "o", "m", "p", "l", "e", "t", "a", "t", "o">>]>>

\* set(LABELS): the values of a list of choices.
ValuesOf(choices) == {choices[i].value : i \in DOMAIN choices}

TICKET_STATUS_VALUES == ValuesOf(TICKET_STATUSES)
REPAIR_STATUS_VALUES == ValuesOf(REPAIR_STATUSES)
DEFAULT_TICKET_STATUS == TICKET_STATUSES[1].value
DEFAULT_REPAIR_STATUS == REPAIR_STATUSES[1].value

\* LABELS.get(value, value)
LabelOf(choices, value) ==
    IF value \in ValuesOf(choices)
    THEN choices[CHOOSE i \in DOMAIN choices : choices[i].value = value].label
    ELSE value

tracked_fields ==
    <<"status", "product", "issue_description", "payment_info",
      "repair_status", "date_received", "date_repaired", "date_returned">>

TrackedFields == {tracked_fields[i] : i \in DOMAIN tracked_fields}

\* request.form.get(key, default): a key the form lacks is NULL here.
FormGet(form, key, default) == IF form[key] = NULL THEN default ELSE form[key]

\* The values the handler reads from the form (lines 1021-1037).
new_values(ticket, form) ==
    LET repair_status ==
            FormGet(form, "repair_status",
                    Or(ticket.repair_status, DEFAULT_REPAIR_STATUS))
    IN  [status |-> Or(Strip(FormGet(form, "status", <<>>)), ticket.status),
         product |-> OrNone(Strip(FormGet(form, "product", <<>>))),
         issue_description |->
             OrNone(Strip(FormGet(form, "issue_description", <<>>))),
         payment_info |-> OrNone(Strip(FormGet(form, "payment_info", <<>>))),
         repair_status |-> IF repair_status \in REPAIR_STATUS_VALUES
                           THEN repair_status
                           ELSE DEFAULT_REPAIR_STATUS,
         date_received |-> Or(form.date_received, NULL),
         date_repaired |-> Or(form.date_repaired, NULL),
         date_returned |-> Or(form.date_returned, NULL)]

\* (ticket[field] or '') != (new_values[field] or '')
FieldChanged(ticket, values, field) ==
    OrEmpty(ticket[field]) # OrEmpty(values[field])

has_changes(ticket, values) ==
    \E field \in TrackedFields : FieldChanged(ticket, values, field)

_format_value(key, value) ==
    IF value = NULL THEN NULL
    ELSE IF key = "status" THEN LabelOf(TICKET_STATUSES, value)
    ELSE IF key = "repair_status" THEN LabelOf(REPAIR_STATUSES, value)
    ELSE value

HistoryRow(ticket_id, field, old_raw, new_raw, changed_by) ==
    [ticket_id |-> ticket_id, field |-> field,
     old_value |-> _format_value(field, old_raw),
     new_value |-> _format_value(field, new_raw),
     changed_by |-> changed_by]

\* As HistoryRows, without the continue for a field that did not change.
RECURSIVE HistoryRowsForEveryField(_, _, _, _, _)
HistoryRowsForEveryField(ticket_id, ticket, values, changed_by, i) ==
    IF i > Len(tracked_fields) THEN <<>>
    ELSE <<HistoryRow(ticket_id, tracked_fields[i], ticket[tracked_fields[i]],
                      values[tracked_fields[i]], changed_by)>>
         \o HistoryRowsForEveryField(ticket_id, ticket, values, changed_by, i + 1)

\* The loop over tracked_fields (lines 1095-1112), from field i on: the rows
\* it inserts into ticket_history.
RECURSIVE HistoryRows(_, _, _, _, _)
HistoryRows(ticket_id, ticket, values, changed_by, i) ==
    IF i > Len(tracked_fields) THEN <<>>
    ELSE IF ~FieldChanged(ticket, values, tracked_fields[i])
    THEN HistoryRows(ticket_id, ticket, values, changed_by, i + 1)
    ELSE <<HistoryRow(ticket_id, tracked_fields[i], ticket[tracked_fields[i]],
                      values[tracked_fields[i]], changed_by)>>
         \o HistoryRows(ticket_id, ticket, values, changed_by, i + 1)

\* UPDATE tickets SET <the tracked fields>, last_modified_by WHERE id = ?
UpdatedTicket(ticket, values, changed_by) ==
    [f \in DOMAIN ticket |->
        IF f \in TrackedFields THEN values[f]
        ELSE IF f = "last_modified_by" THEN changed_by
        ELSE ticket[f]]

\* POST /tickets/<ticket_id> with the details form, as current_user: one
\* request on the stored ticket and history.
ticket_detail(ticket_id, form) ==
    /\ last.op = "none"
    /\ IF session = Anonymous
       THEN /\ last' = [op |-> "login_redirect", endpoint |-> "ticket_detail"]
            /\ UNCHANGED <<tickets, ticket_history>>
       ELSE IF ticket_id \notin DOMAIN tickets
       THEN /\ last' = [op |-> "ticket_detail", id |-> ticket_id, form |-> form,
                        outcome |-> "not_found", before |-> tickets,
                        history |-> ticket_history]
            /\ UNCHANGED <<tickets, ticket_history>>
       ELSE LET ticket == tickets[ticket_id]
                values == new_values(ticket, form)
                seen == [op |-> "ticket_detail", id |-> ticket_id, form |-> form,
                         outcome |-> "", before |-> tickets,
                         history |-> ticket_history]
            IN  IF values.status \notin TICKET_STATUS_VALUES
                THEN /\ last' = [seen EXCEPT !.outcome = "invalid_status"]
                     /\ UNCHANGED <<tickets, ticket_history>>
                ELSE IF ~has_changes(ticket, values)
                THEN /\ last' = [seen EXCEPT !.outcome = "no_changes"]
                     /\ UNCHANGED <<tickets, ticket_history>>
                ELSE /\ tickets' = [tickets EXCEPT ![ticket_id] =
                                       UpdatedTicket(ticket, values, session)]
                     /\ ticket_history' =
                            ticket_history
                            \o HistoryRows(ticket_id, ticket, values, session, 1)
                     /\ last' = [seen EXCEPT !.outcome = "updated"]
    /\ UNCHANGED <<codec, customers, nextId, calendar, hist, conn, dbLock,
                   schedVars, inputVars, users, session>>

\* A ticket as add_ticket inserts it for a form that carries a customer and
\* a subject only.
TicketNew ==
    [status |-> DEFAULT_TICKET_STATUS, product |-> NULL,
     issue_description |-> NULL, payment_info |-> NULL,
     repair_status |-> DEFAULT_REPAIR_STATUS, date_received |-> NULL,
     date_repaired |-> NULL, date_returned |-> NULL, last_modified_by |-> 1]

\* Tickets: a new one; one with every field filled; one from before the
\* present status values, with an empty product.
TicketRows ==
    {TicketNew,
     [status |-> <<"c", "l", "o", "s", "e", "d">>, product |-> <<"p">>,
      issue_description |-> <<"i">>, payment_info |-> <<"y">>,
      repair_status |-> <<"d", "i", "a", "g", "n", "o", "s", "t", "i", "c", "a", "t", "o">>,
      date_received |-> <<"1">>, date_repaired |-> <<"2">>,
      date_returned |-> <<"3">>, last_modified_by |-> 2],
     [status |-> <<"a", "p", "e", "r", "t", "o">>, product |-> <<>>,
      issue_description |-> NULL, payment_info |-> NULL,
      repair_status |-> NULL, date_received |-> NULL,
      date_repaired |-> NULL, date_returned |-> NULL, last_modified_by |-> 1]}

\* request.form of the details form: a field left empty or filled; the
\* status and the repair status missing, valid (the status padded) or unknown.
TicketForms ==
    [status : {NULL, <<"c", "l", "o", "s", "e", "d", " ">>, <<"x">>},
     product : {<<>>, <<"p", " ">>},
     issue_description : {<<>>, <<"i">>},
     payment_info : {<<>>, <<"y">>},
     repair_status : {NULL, <<"d", "i", "a", "g", "n", "o", "s", "t", "i", "c", "a", "t", "o">>, <<"x">>},
     date_received : {<<>>, <<"1">>},
     date_repaired : {NULL, <<"2">>},
     date_returned : {<<>>, <<"3">>}]

\* The row add_ticket writes into ticket_history.
CreatedRow ==
    [ticket_id |-> 1, field |-> "__created__", old_value |-> NULL,
     new_value |-> <<"T", "i", "c", "k", "e", "t", " ", "c", "r", "e", "a", "t", "o">>, changed_by |-> 1]

-----------------------------------------------------------------------------
(* Specifications *)

\* The scheduler as constructed and not started, the OAuth files in place,
\* an administrator (user 1) logged in, a plain user (user 2) and a user with
\* the legacy role spelling (user 3) registered.
SchedInitial ==
    /\ sched = SchedNew
    /\ workers = [w \in WorkerIds |-> WorkerUnborn]

WebInitial ==
    /\ users = (1 :> "admin") @@ (2 :> "user") @@ (3 :> "Admin")
    /\ tickets = (1 :> TicketNew)
    /\ ticket_history = <<>>
    /\ session = 1

RestInit ==
    /\ env = [credentials |-> TRUE, token |-> "valid"]
    /\ SchedInitial
    /\ WebInitial
    /\ events = <<>>

StoreInit(calendars) ==
    /\ customers \in InitStores
    /\ nextId = MaxIdOf(customers) + 1
    /\ calendar \in calendars
    /\ last = [op |-> "none"]
    /\ hist = HistInit(customers)
    /\ codec = CodecIdle
    /\ conn = [w \in Writers |-> ConnIdle]
    /\ dbLock = NoWriter
    /\ RestInit

\* The sync on a store whose greatest code is malformed.
CorruptInit ==
    /\ customers \in CorruptStores
    /\ nextId = MaxIdOf(customers) + 1
    /\ calendar \in SeqsUpTo(Candidates, MaxBatch)
    /\ last = [op |-> "none"]
    /\ hist = HistInit(customers)
    /\ codec = CodecIdle
    /\ conn = [w \in Writers |-> ConnIdle]
    /\ dbLock = NoWriter
    /\ RestInit

CorruptNext == SyncCandidates

CorruptSpec == CorruptInit /\ [][CorruptNext]_vars

\* The customer routes and the sync, one request at a time.
Init == StoreInit(SeqsUpTo(RouteCandidates, MaxRouteBatch))

Next ==
    \/ \E form \in Forms : add_customer(form)
    \/ \E id \in 1..MaxId : delete_customer(id)
    \/ \E id \in 1..MaxId, form \in Forms : edit_customer(id, form)
    \/ SyncCandidates

Spec == Init /\ [][Next]_vars

\* add_customer requests and sync runs racing, statement by statement.
WriterNext ==
    \E w \in Writers :
        \/ \E form \in WriterForms : BeginAdd(w, form)
        \/ AddAlloc(w)
        \/ AddInsert(w)
        \/ BeginSync(w)
        \/ SyncFind(w)
        \/ SyncAlloc(w)
        \/ SyncInsert(w)
        \/ SyncUpdate(w)
        \/ Commit(w)
        \/ Timeout(w)

WriterSpec == Init /\ [][WriterNext]_vars

\* Repeated sync runs over one calendar window.
SyncInit == StoreInit(SeqsUpTo(Candidates, MaxBatch))

SyncNext == SyncCandidates

SyncSpec == SyncInit /\ [][SyncNext]_vars

\* The conversions of customer_codes.py on sampled codes and integers.
CodecInit ==
    /\ codec \in [pc : {"start"}, kind : {"code"}, a : SampleCodes,
                   b : SampleCodes, n : {0}, da : {0}, db : {0}, out : {<<>>}]
               \cup
               [pc : {"start"}, kind : {"int"}, a : {<<>>}, b : {<<>>},
                n : SampleInts, da : {0}, db : {0}, out : {<<>>}]
    /\ customers = {}
    /\ nextId = 1
    /\ calendar = <<>>
    /\ last = [op |-> "none"]
    /\ hist = HistInit({})
    /\ conn = [w \in Writers |-> ConnIdle]
    /\ dbLock = NoWriter
    /\ RestInit

CodecNext == CodecDecode \/ CodecReencode \/ CodecEncode \/ CodecRedecode

CodecSpec == CodecInit /\ [][CodecNext]_vars

\* The scheduler: start() and stop() calls, the worker threads tick by tick,
\* and the OAuth files changing on disk.
SchedulerInit ==
    /\ customers \in {db \in InitStores : Cardinality(db) = 1}
    /\ nextId = MaxIdOf(customers) + 1
    /\ calendar \in {q \in SeqsUpTo(RouteCandidates, MaxRouteBatch) : Len(q) = 1}
    /\ last = [op |-> "none"]
    /\ hist = HistInit(customers)
    /\ codec = CodecIdle
    /\ conn = [w \in Writers |-> ConnIdle]
    /\ dbLock = NoWriter
    /\ env \in [credentials : BOOLEAN, token : {"valid"}]
    /\ SchedInitial
    /\ WebInitial
    /\ events = <<>>

SchedulerNext ==
    \/ start
    \/ stop
    \/ stop_join
    \/ credentials_change
    \/ \E w \in WorkerIds :
          \/ worker_loop(w)
          \/ execute_sync_acquire(w)
          \/ execute_sync_body(w)
          \/ execute_sync_finally(w)
          \/ worker_wait(w)

SchedulerSpec == SchedulerInit /\ [][SchedulerNext]_vars

\* The scheduler, and the administrator posting the calendar_sync form.
OverlapNext == SchedulerNext \/ calendar_sync("POST")

OverlapSpec == SchedulerInit /\ [][OverlapNext]_vars

\* run_calendar_sync called with a wrapper over the files on disk.
RunCalendarSync ==
    /\ \E out \in run_calendar_sync(customers, nextId, env, calendar) :
          /\ env' = [env EXCEPT !.token = out.token]
          /\ IF out.synced /\ ~out.raised
             THEN /\ out.run.nextId <= MaxId + 1
                  /\ customers' = out.run.db
                  /\ nextId' = out.run.nextId
                  /\ hist' = HistAfterCreate(CreatedCodes(out.run.steps))
             ELSE UNCHANGED <<customers, nextId, hist>>
          /\ last' = [op |-> "run_calendar_sync", env |-> env, before |-> customers,
                      raised |-> out.raised, error |-> out.error,
                      fetched |-> out.fetched, synced |-> out.synced,
                      stats |-> out.run.stats]
    /\ UNCHANGED <<codec, calendar, conn, dbLock, sched, workers, webVars, inputVars>>

OrchestratorInit ==
    /\ customers \in InitStores
    /\ nextId = MaxIdOf(customers) + 1
    /\ calendar \in SeqsUpTo(RouteCandidates, MaxRouteBatch)
    /\ last = [op |-> "none"]
    /\ hist = HistInit(customers)
    /\ codec = CodecIdle
    /\ conn = [w \in Writers |-> ConnIdle]
    /\ dbLock = NoWriter
    /\ env \in Envs
    /\ SchedInitial
    /\ WebInitial
    /\ events = <<>>

OrchestratorNext == RunCalendarSync \/ credentials_change \/ token_change

OrchestratorSpec == OrchestratorInit /\ [][OrchestratorNext]_vars

\* The browser session of one user after another: login, logout, and the
\* requests to the admin routes; the OAuth client secrets are in place, with
\* or without a saved token.
WebInit ==
    /\ customers \in {db \in InitStores : Cardinality(db) = 2}
    /\ nextId = MaxIdOf(customers) + 1
    /\ calendar = <<>>
    /\ last = [op |-> "none"]
    /\ hist = HistInit(customers)
    /\ codec = CodecIdle
    /\ conn = [w \in Writers |-> ConnIdle]
    /\ dbLock = NoWriter
    /\ env \in [credentials : {TRUE}, token : {"missing", "valid"}]
    /\ SchedInitial
    /\ WebInitial
    /\ events = <<>>

WebNext ==
    \/ \E u \in DOMAIN users : login(u)
    \/ logout
    \/ \E form \in WriterForms : admin_required("add_customer", add_customer(form))
    \/ \E id \in 1..MaxId : admin_required("delete_customer", delete_customer(id))
    \/ \E id \in 1..MaxId, form \in WriterForms :
          admin_required("edit_customer", edit_customer(id, form))
    \/ \E id \in DOMAIN users : admin_required("promote_user", promote_user(id))
    \/ \E id \in 1..2 : admin_required("delete_ticket", delete_ticket(id))
    \/ \E method \in {"GET", "POST"} :
          admin_required("calendar_sync", calendar_sync(method))

WebSpec == WebInit /\ [][WebNext]_vars

\* extract_customers on one event of any shape, and on lists of events.
ExtractInit ==
    /\ events \in {WithIds(<<b>>) : b \in EventBodies}
                  \cup {WithIds(l) : l \in SeqsUpTo(ListEventBodies, MaxEvents)}
    /\ codec = [pc |-> "idle"]
    /\ customers = {}
    /\ nextId = 1
    /\ calendar = <<>>
    /\ last = [op |-> "none"]
    /\ hist = HistInit({})
    /\ conn = [w \in Writers |-> ConnIdle]
    /\ dbLock = NoWriter
    /\ env = [credentials |-> TRUE, token |-> "valid"]
    /\ SchedInitial
    /\ WebInitial

ExtractNext == ExtractCustomers

ExtractSpec == ExtractInit /\ [][ExtractNext]_vars

\* The details form of ticket_detail, posted by a user, an administrator or
\* nobody, for a ticket that exists or not.
TicketInit ==
    /\ tickets \in {(1 :> r) : r \in TicketRows}
    /\ ticket_history \in {<<>>, <<CreatedRow>>}
    /\ session \in {Anonymous, 1, 2}
    /\ users = (1 :> "admin") @@ (2 :> "user") @@ (3 :> "Admin")
    /\ customers = {}
    /\ nextId = 1
    /\ calendar = <<>>
    /\ last = [op |-> "none"]
    /\ hist = HistInit({})
    /\ codec = CodecIdle
    /\ conn = [w \in Writers |-> ConnIdle]
    /\ dbLock = NoWriter
    /\ env = [credentials |-> TRUE, token |-> "valid"]
    /\ SchedInitial
    /\ events = <<>>

TicketNext ==
    \E ticket_id \in 1..2, form \in TicketForms : ticket_detail(ticket_id, form)

TicketSpec == TicketInit /\ [][TicketNext]_vars

-----------------------------------------------------------------------------
(* Properties *)

LastCode == Code("z", "z", "z", "z")
FirstCode == Code("a", "a", "a", "a")

Exhausted == "Limite massimo per i codici cliente raggiunto."

ValidCode(c) == Len(c) = CUSTOMER_CODE_LENGTH /\ \A i \in DOMAIN c : c[i] \in AlphabetChars

\* Every stored code is NULL, empty or a valid code.
ValidStore(db) == \A r \in CodedRows(db) : ValidCode(r.code)

\* The last request called the allocator on the rows db and got res: the
\* add_customer request, or a step of the sync run that found no match.
AllocatorCalls ==
    IF last.op = "add" /\ last.outcome \in {"created", "alloc_failed"}
    THEN {[db |-> last.before, outcome |-> last.outcome,
           code |-> IF last.outcome = "created" THEN last.code ELSE NULL,
           error |-> IF last.outcome = "created" THEN "" ELSE last.error,
           after |-> customers]}
    ELSE IF last.op = "sync" /\ last.outcome = "committed"
    THEN {[db |-> last.steps[i].before, outcome |-> last.steps[i].outcome,
           code |-> IF last.steps[i].outcome = "created"
                    THEN last.steps[i].code ELSE NULL,
           error |-> IF last.steps[i].outcome = "created"
                     THEN "" ELSE last.steps[i].error,
           after |-> IF i < Len(last.steps) THEN last.steps[i + 1].before
                     ELSE customers] :
            i \in {k \in DOMAIN last.steps :
                      last.steps[k].outcome \in {"created", "alloc_failed"}}}
    ELSE {}

\* C1: started on valid codes, the codes allocated and inserted since the
\* last deletion are valid and strictly increasing in their integer value.
C1_AllocationsIncrease ==
    ValidStore(customers) =>
    \A i, j \in DOMAIN hist.run :
        /\ ValidCode(hist.run[i])
        /\ i < j => customer_code_to_int(hist.run[i]) < customer_code_to_int(hist.run[j])

C1_Witness ==
    /\ Len(hist.run) >= 2
    /\ hist.run[1] = Code("a", "b", "a", "a")
    /\ hist.run[2] = Code("a", "b", "a", "b")

NewRows == {r \in customers' : \A q \in customers : q.id # r.id}

C4_ExhaustedAtLastCode ==
    /\ \A call \in AllocatorCalls :
          (CodedRows(call.db) # {} /\ MaxCode(call.db) = LastCode) =>
              /\ call.outcome = "alloc_failed"
              /\ call.error = Exhausted
              /\ call.code = NULL
              /\ call.after = call.db
    /\ (CodedRows(customers) # {} /\ MaxCode(customers) = LastCode) =>
          /\ generate_next_customer_code(customers).raised
          /\ generate_next_customer_code(customers).error = Exhausted

C4_Witness ==
    /\ last.op = "add" /\ last.outcome = "alloc_failed"
    /\ MaxCode(last.before) = LastCode
    /\ \E r \in last.before : r.code = LastCode /\ r.id = 2

\* C5: when no row has a non-empty code (no rows, or only NULL and empty
\* codes) the allocator returns aaaa.
C5_FirstCode ==
    \A call \in AllocatorCalls :
        (\A r \in call.db : r.code = NULL \/ r.code = <<>>) =>
            call.outcome = "created" /\ call.code = FirstCode

C5_Witness ==
    /\ last.op = "add" /\ last.outcome = "created" /\ last.code = FirstCode
    /\ last.before # {}
    /\ \A r \in last.before : r.code \in {NULL, <<>>}

\* C6: on every valid code decoding then encoding gives the code back, on
\* every integer of the range encoding then decoding gives the integer back,
\* and two codes compare byte-wise as their integers compare.
C6_RoundTripAndOrder ==
    codec.pc = "done" =>
        /\ codec.kind = "code" =>
              /\ codec.out = codec.a
              /\ (codec.da < codec.db) <=> StrLess(codec.a, codec.b)
              /\ (codec.da = codec.db) <=> (codec.a = codec.b)
        /\ codec.kind = "int" => codec.da = codec.n

C6_Witness ==
    /\ codec.pc = "done" /\ codec.kind = "code"
    /\ codec.a = Code("a", "z", "b", "z") /\ codec.b = Code("b", "a", "a", "a")
    /\ codec.da < codec.db

\* C2: no two committed customers hold the same code, however the
\* statements of racing add_customer requests and sync runs interleave.
C2_CodesUnique ==
    \A r, q \in CodedRows(customers) : r.code = q.code => r.id = q.id

\* Two writers read the same greatest code; one inserted and committed, the
\* INSERT of the other was rejected for the code it still held.
C2_Witness ==
    \E w \in Writers :
        /\ conn[w].result = "IntegrityError"
        /\ \E r \in customers : r.code = conn[w].code

-----------------------------------------------------------------------------
(* Properties of a sync run *)

SyncCommitted == last.op = "sync" /\ last.outcome = "committed"

\* The rows after step i of the last run: what the next step saw, or what
\* the run committed.
RowsAfter(i) ==
    IF i < Len(last.steps) THEN last.steps[i + 1].before ELSE customers

Matched(step) == step.outcome \in {"updated", "skipped"}

SameEmail(r, c) == r.email # NULL /\ Lower(r.email) = Lower(c.email)
SameName(r, c) == Lower(r.name) = Lower(c.name)

\* C7: a candidate whose email is, but for letter case, the email of a stored
\* customer is matched to a customer with that email and creates no row,
\* whatever its name and phone match; a match by phone happens only when no
\* row has the email, a match by name only when no row has the email or the
\* phone; with no row for any of the three the candidate is new.
C7_MatchingPriority ==
    SyncCommitted =>
        \A i \in DOMAIN last.steps :
            LET step == last.steps[i]
                c == step.customer
                emailHit == Truthy(c.email) /\ \E r \in step.before : SameEmail(r, c)
                phoneHit == Truthy(c.phone) /\ \E r \in step.before : r.phone = c.phone
                nameHit == \E r \in step.before : SameName(r, c)
            IN  /\ emailHit =>
                      Matched(step) /\ SameEmail(RowById(step.before, step.id), c)
                /\ (~emailHit /\ phoneHit) =>
                      Matched(step) /\ RowById(step.before, step.id).phone = c.phone
                /\ (~emailHit /\ ~phoneHit /\ nameHit) =>
                      Matched(step) /\ SameName(RowById(step.before, step.id), c)
                /\ (~emailHit /\ ~phoneHit /\ ~nameHit) => ~Matched(step)

\* A candidate matched by its email (stored in another letter case) to one
\* customer while its name is the name of another.
C7_Witness ==
    /\ SyncCommitted
    /\ \E i \in DOMAIN last.steps :
          LET step == last.steps[i]
          IN  /\ Matched(step)
              /\ Truthy(step.customer.email)
              /\ SameEmail(RowById(step.before, step.id), step.customer)
              /\ RowById(step.before, step.id).email # step.customer.email
              /\ ~SameName(RowById(step.before, step.id), step.customer)
              /\ \E r \in step.before : r.id # step.id /\ SameName(r, step.customer)

\* C8 as stated: a run that follows a committed run of the same window
\* creates nothing, updates nothing, skips every candidate the run before
\* created, and leaves the rows as that run left them.
C8_SecondRunIdle ==
    (SyncCommitted /\ last.prev.ran) =>
        /\ last.stats.created = 0
        /\ last.stats.updated = 0
        /\ \A i \in DOMAIN last.steps :
              last.prev.outcomes[i] = "created" => last.steps[i].outcome = "skipped"
        /\ customers = last.before

\* C8 amended: when the run before created a customer for every candidate of
\* the window (K = total), the next run of the same window creates nothing,
\* updates nothing, skips all K and leaves the rows as they were.
C8_SecondRunIdleAfterAllCreated ==
    (SyncCommitted /\ last.prev.ran
        /\ last.prev.stats.created = last.prev.stats.total) =>
        /\ last.stats.created = 0
        /\ last.stats.updated = 0
        /\ last.stats.skipped = last.prev.stats.created
        /\ last.stats.total = last.prev.stats.total
        /\ \A i \in DOMAIN last.steps : last.steps[i].outcome = "skipped"
        /\ customers = last.before

C8_Witness ==
    /\ SyncCommitted /\ last.prev.ran
    /\ last.prev.stats.created = 2 /\ last.prev.stats.total = 2
    /\ last.stats.skipped = 2
    /\ Cardinality(customers) = 2

\* The fields of a matched row that differ from the candidate's once both
\* are stripped, None and '' taken as equal.
Differing(row, c) ==
    {f \in {"name", "email", "phone", "address"} :
        Strip(OrEmpty(row[f])) # Strip(OrEmpty(c[f]))}

CountOutcome(kinds) ==
    Cardinality({i \in DOMAIN last.steps : last.steps[i].outcome \in kinds})

\* C9: a step that matched a row writes the candidate's value into exactly
\* the differing fields of that row and counts one update (none when nothing
\* differs); the row's id and code, its other fields and all other rows stay,
\* and no step changes the code of any row.
C9_PartialFieldUpdate ==
    SyncCommitted =>
        /\ last.stats.updated = CountOutcome({"updated"})
        /\ \A i \in DOMAIN last.steps :
              LET step == last.steps[i]
                  after == RowsAfter(i)
              IN  /\ \A r \in step.before :
                        \E q \in after : q.id = r.id /\ q.code = r.code
                  /\ Matched(step) =>
                        LET row == RowById(step.before, step.id)
                            diff == Differing(row, step.customer)
                            new == RowById(after, step.id)
                        IN  /\ (step.outcome = "updated") <=> (diff # {})
                            /\ step.outcome = "updated" => step.fields = diff
                            /\ \A f \in DOMAIN row :
                                  new[f] = IF f \in diff THEN step.customer[f]
                                           ELSE row[f]
                            /\ after \ {new} = step.before \ {row}

\* The spec's example: the candidate differs from its customer in the phone
\* only; one update, the phone written and nothing else.
C9_Witness ==
    /\ SyncCommitted
    /\ last.stats.updated = 1 /\ last.stats.total = 1
    /\ last.steps[1].outcome = "updated"
    /\ last.steps[1].fields = {"phone"}
    /\ Cardinality(last.before) = 2
    /\ RowById(customers, last.steps[1].id).phone = <<"1">>

\* C10: a run in which the allocator raised for some candidates still
\* commits; each of them is counted as skipped, every candidate of the window
\* is processed, in order, and the rows created earlier in the run are kept.
C10_BatchResilience ==
    last.op = "sync" =>
        /\ last.outcome = "committed"
        /\ Len(last.steps) = Len(NamedCustomers(last.batch))
        /\ last.stats.total = Len(last.steps)
        /\ last.stats.created = CountOutcome({"created"})
        /\ last.stats.skipped = CountOutcome({"skipped", "alloc_failed"})
        /\ \A i \in DOMAIN last.steps :
              /\ last.steps[i].customer = NamedCustomers(last.batch)[i]
              /\ last.steps[i].outcome = "alloc_failed" =>
                    RowsAfter(i) = last.steps[i].before
              /\ last.steps[i].outcome = "created" =>
                    \E r \in customers : /\ r.id = last.steps[i].id
                                          /\ r.code = last.steps[i].code

\* A creation, then a candidate the allocator raised for, then a candidate
\* that updated a row.
C10_Witness ==
    /\ SyncCommitted
    /\ Len(last.steps) = 3
    /\ last.steps[1].outcome = "created"
    /\ last.steps[2].outcome = "alloc_failed"
    /\ last.steps[3].outcome = "updated"
    /\ last.stats = [total |-> 3, created |-> 1, updated |-> 1, skipped |-> 1]
    /\ \E r \in customers : r.code = LastCode

\* C11: the stats of a sync run that returned are non-negative, total is the
\* sum of created, updated and skipped, and total is the number of candidates
\* the run processed, each counted in exactly one of the three.
C11_StatsInvariant ==
    SyncCommitted =>
        /\ \A k \in {"total", "created", "updated", "skipped"} : last.stats[k] >= 0
        /\ last.stats.total
              = last.stats.created + last.stats.updated + last.stats.skipped
        /\ last.stats.total = Len(NamedCustomers(last.batch))
        /\ last.stats.created = CountOutcome({"created"})
        /\ last.stats.updated = CountOutcome({"updated"})
        /\ last.stats.skipped = CountOutcome({"skipped", "alloc_failed"})

\* A run of three candidates: one created, one updated, one found unchanged.
C11_Witness ==
    /\ SyncCommitted
    /\ last.stats = [total |-> 3, created |-> 1, updated |-> 1, skipped |-> 1]
    /\ CountOutcome({"skipped"}) = 1
    /\ Len(last.batch) = 3

\* The candidates share an email or a name, letter case apart, or a phone.
Shares(c, d) ==
    \/ Truthy(c.email) /\ Truthy(d.email) /\ Lower(c.email) = Lower(d.email)
    \/ Truthy(c.phone) /\ c.phone = d.phone
    \/ Lower(c.name) = Lower(d.name)

\* The row holds the candidate's email, phone or name.
RowShares(r, c) ==
    \/ Truthy(c.email) /\ SameEmail(r, c)
    \/ Truthy(c.phone) /\ r.phone = c.phone
    \/ SameName(r, c)

\* C23 as stated: two candidates of one run that share an email, a phone or
\* a name never both create a customer.
C23_NoTwoCreatedForSharedValue ==
    SyncCommitted =>
        \A i, j \in DOMAIN last.steps :
            (i < j /\ Shares(last.steps[i].customer, last.steps[j].customer))
                => ~(/\ last.steps[i].outcome = "created"
                     /\ last.steps[j].outcome = "created")

\* C23, amended: every step sees the rows as the steps before it left them,
\* the rows created in the run included; a candidate that finds its email,
\* phone or name in the row created for an earlier candidate is matched and
\* creates nothing, and so is always the candidate that comes right after a
\* created one and shares a value with it.
C23_ReadAfterWrite ==
    SyncCommitted =>
        \A i, j \in DOMAIN last.steps :
            (i < j /\ last.steps[i].outcome = "created") =>
                /\ \E r \in last.steps[j].before : r.id = last.steps[i].id
                /\ RowShares(RowById(last.steps[j].before, last.steps[i].id),
                             last.steps[j].customer)
                      => Matched(last.steps[j])
                /\ (j = i + 1 /\ Shares(last.steps[i].customer,
                                        last.steps[j].customer))
                      => Matched(last.steps[j])

\* The first candidate created a customer and the second one, with the same
\* name and another phone, updated that customer.
C23_Witness ==
    /\ SyncCommitted
    /\ Len(last.steps) = 2
    /\ last.steps[1].outcome = "created"
    /\ last.steps[2].outcome = "updated"
    /\ last.steps[2].id = last.steps[1].id
    /\ last.steps[1].customer.name = last.steps[2].customer.name
    /\ last.steps[1].customer.phone # last.steps[2].customer.phone

\* C24: the invalid-code error of the allocator ends sync_customers and
\* reaches its caller; no committed run counts a candidate as skipped because
\* of it (only the exhausted-codes error is turned into a skip).
C24_InvalidCodePropagates ==
    SyncCommitted =>
        \A i \in DOMAIN last.steps :
            last.steps[i].outcome = "alloc_failed" =>
                last.steps[i].error # "Codice cliente non valido."

\* C27: a matched candidate without an email, phone or address, where the
\* stored customer has one, is counted as updated and the stored value
\* becomes NULL.
C27_MissingValueErases ==
    SyncCommitted =>
        \A i \in DOMAIN last.steps :
            LET step == last.steps[i]
            IN  Matched(step) =>
                  \A f \in {"email", "phone", "address"} :
                      (/\ step.customer[f] = NULL
                       /\ ~Blank(RowById(step.before, step.id)[f]))
                      => /\ step.outcome = "updated"
                         /\ f \in step.fields
                         /\ RowById(RowsAfter(i), step.id)[f] = NULL

\* One candidate that carries a name only met a customer with an email, a
\* phone and an address: all three are erased.
C27_Witness ==
    /\ SyncCommitted
    /\ Len(last.steps) = 1
    /\ last.steps[1].outcome = "updated"
    /\ last.steps[1].fields = {"email", "phone", "address"}
    /\ RowById(last.before, last.steps[1].id).email = <<"a">>
    /\ RowById(customers, last.steps[1].id).email = NULL
    /\ RowById(customers, last.steps[1].id).phone = NULL
    /\ RowById(customers, last.steps[1].id).address = NULL
    /\ last.stats.updated = 1

-----------------------------------------------------------------------------
(* Properties of the scheduler *)

\* The workers between the acquire and the release of the run-lock.
InTick(w) == workers[w].pc \in {"body", "finally"}
Running == {w \in WorkerIds : InTick(w)}

\* C12: at most one worker is inside a tick, and it is the one that acquired
\* the lock; a tick that finds the lock held goes straight to the wait for
\* the next interval: it does not enter the body, takes no lock, and leaves
\* the store and the OAuth files alone.
C12_NonOverlap ==
    /\ [](Cardinality(Running) <= 1 /\ \A w \in Running : sched.lock = w)
    /\ [][\A w \in WorkerIds :
            (/\ workers[w].pc = "acquire"
             /\ sched.lock # NoThread
             /\ workers'[w] # workers[w])
            => /\ workers'[w].pc = "wait"
               /\ sched'.lock = sched.lock
               /\ sched'.tick = [w |-> w, log |-> "lock_held",
                                 prev |-> sched.tick.log, calls |-> 0]
               /\ UNCHANGED <<customers, nextId, last, env>>]_vars

\* A second worker skipped its tick while the first one is inside a tick.
C12_Witness ==
    /\ sched.tick.log = "lock_held"
    /\ sched.lock \notin {NoThread, sched.tick.w}
    /\ InTick(sched.lock)
    /\ workers[sched.tick.w].pc = "wait"

\* C13: the lock is held exactly while a worker is inside a tick, by that
\* worker; it becomes free only by the finally clause of the worker that
\* acquired it, and every worker that leaves a tick it entered frees it.
C13_LockReleased ==
    /\ []((sched.lock = NoThread <=> Running = {})
          /\ (sched.lock # NoThread => InTick(sched.lock)))
    /\ [][(sched.lock # NoThread /\ sched'.lock = NoThread)
            => /\ workers[sched.lock].pc = "finally"
               /\ workers'[sched.lock].pc \in {"wait", "dead"}]_vars
    /\ [][\A w \in WorkerIds :
            (InTick(w) /\ ~InTick(w)') => sched'.lock = NoThread]_vars

\* A tick that raised, after a tick that returned for missing credentials:
\* its worker waits for the next interval and the lock is free.
C13_Witness ==
    /\ sched.tick.log = "logged_exception"
    /\ sched.tick.prev = "credentials_missing"
    /\ workers[sched.tick.w].pc = "wait"
    /\ sched.lock = NoThread

\* C14: no exception leaves _execute_sync: a worker inside a tick does not
\* end, a worker ends only at the loop test with the stop event set, and a
\* worker at the loop test with the event clear starts the next tick.
C14_ErrorsStayInTick ==
    /\ [](\A w \in WorkerIds : ~workers[w].raising)
    /\ [][\A w \in WorkerIds :
            /\ (workers'[w].pc = "dead" /\ workers[w].pc # "dead")
                  => (workers[w].pc = "loop" /\ sched.stop_event)
            /\ (workers[w].pc = "loop" /\ ~sched.stop_event
                  /\ workers'[w] # workers[w]) => workers'[w].pc = "acquire"
            /\ (workers[w].pc = "wait" /\ workers'[w] # workers[w])
                  => workers'[w].pc = "loop"]_vars

\* The worker whose last tick logged an exception is inside its next tick.
C14_Witness ==
    /\ sched.tick.log = "logged_exception"
    /\ workers[sched.tick.w].pc = "body"

\* C15: a tick that holds the lock reads the credentials file as it is at
\* that moment: when the file is missing the tick logs the warning and
\* changes neither the store nor the token; when it exists the tick goes on
\* past the test.
C15_CredentialsReadEachTick ==
    [][\A w \in WorkerIds :
        (workers[w].pc = "body" /\ workers'[w].pc = "finally")
        => /\ sched'.tick.w = w
           /\ (sched'.tick.log = "credentials_missing") <=> ~env.credentials
           /\ ~env.credentials => UNCHANGED <<customers, nextId, last, hist, env>>]_vars

\* The only worker ever started found the credentials missing in one tick
\* and present in the next.
C15_Witness ==
    /\ sched.tick.prev = "credentials_missing"
    /\ sched.tick.log # "credentials_missing"
    /\ workers[sched.tick.w].pc = "finally"
    /\ \A w \in WorkerIds \ {sched.tick.w} : workers[w].pc = "unborn"

\* C16: while the thread of the scheduler is alive no step creates a worker
\* or clears the stop event, and while the scheduler has no thread no step
\* sets the stop event or waits in a join.
C16_StartStopNoOp ==
    [][/\ is_alive(sched.thread) =>
            /\ \A w \in WorkerIds :
                  workers[w].pc = "unborn" => workers'[w].pc = "unborn"
            /\ sched.stop_event => sched'.stop_event
            /\ sched'.thread \in {sched.thread, NoThread}
       /\ (sched.thread = NoThread /\ sched'.thread = NoThread) =>
            /\ sched'.stop_event = sched.stop_event
            /\ sched'.caller = "idle"]_vars

\* start() returned at its first test: a worker is alive.
C16_Witness ==
    /\ sched.call = [op |-> "start", noop |-> TRUE]
    /\ is_alive(sched.thread)
    /\ sched.caller = "idle"

\* stop() was called while w was the thread of the scheduler.
Stopped(w) ==
    /\ workers[w].pc # "unborn"
    /\ sched.thread # w \/ sched.caller = "join"

\* C17: a worker for which stop() was called begins no new tick.
C17_StoppedWorkerExits ==
    [][\A w \in WorkerIds :
        (Stopped(w) /\ workers[w].pc = "loop") => workers'[w].pc # "acquire"]_vars

\* C18: a call of run_calendar_sync without the credentials file fails,
\* having requested no events and neither read nor written the store.
C18_FailsBeforeFetch ==
    (last.op = "run_calendar_sync" /\ ~last.env.credentials) =>
        /\ last.raised
        /\ ~last.fetched
        /\ ~last.synced

-----------------------------------------------------------------------------
(* Properties of the admin pages *)

\* C19: a POST to the calendar sync page with the credentials file present
\* and no saved token does not call run_calendar_sync and answers with the
\* page and an error message.
C19_SyncRequiresToken ==
    (/\ last.op = "calendar_sync"
     /\ last.method = "POST"
     /\ last.env.credentials
     /\ last.env.token = "missing")
    => /\ ~last.invoked
       /\ last.status = 200
       /\ last.flash = "error"

\* C20: while the logged-in user is not an administrator no step changes
\* the customers, users or tickets tables, the id counter or the OAuth
\* files, and every request to an admin route is answered with the redirect
\* of the gate.
C20_AdminGate ==
    [][(session # Anonymous /\ ~is_admin(session)) =>
          /\ UNCHANGED <<customers, nextId, users, tickets, env, hist>>
          /\ last' # last =>
                /\ last'.op = "forbidden"
                /\ last'.user = session]_vars

\* The plain user asked for the deletion of a customer that exists, and the
\* customer is still there.
C20_Witness ==
    /\ session = 2
    /\ last.op = "forbidden"
    /\ last.endpoint = "delete_customer"
    /\ last.user = 2
    /\ Cardinality(customers) = 2

\* C21: a user whose stored role is the legacy spelling 'Admin' passes the
\* admin gate after login: no admin-only request of that user is refused.
C21_LegacyAdminPasses ==
    last.op = "forbidden" => users[last.user] # "Admin"

-----------------------------------------------------------------------------
(* Properties of the extraction *)

IsPerson(attendee) == ~attendee.resource

HasDisplayName(attendee) == ~attendee.resource /\ ~Blank(attendee.displayName)

\* The event names somebody: in its summary or in a person's display name.
Named(event) ==
    \/ ~Blank(event.summary)
    \/ \E i \in DOMAIN event.attendees : HasDisplayName(event.attendees[i])

\* The candidate returned for an event, NoCandidate when there is none.
CandidateOf(event) ==
    IF \E i \in DOMAIN calendar : calendar[i].event_id = event.id
    THEN calendar[CHOOSE i \in DOMAIN calendar : calendar[i].event_id = event.id]
    ELSE NoCandidate

\* C22: extract_customers returns one candidate for every event that has a
\* non-blank summary or a non-resource attendee with a non-blank display
\* name, in event order, none for the other events, and every candidate has a
\* non-empty name.
C22_ExtractionDiscard ==
    last.op = "extract_customers" =>
        LET kept == SelectSeq(last.events, Named)
        IN  /\ Len(calendar) = Len(kept)
            /\ \A i \in DOMAIN calendar :
                  /\ calendar[i].event_id = kept[i].id
                  /\ calendar[i] = _event_to_candidate(kept[i])
                  /\ calendar[i].name # <<>>

\* A list of two: the first event discarded (a blank summary and a room with
\* a display name), the second kept.
C22_Witness ==
    /\ last.op = "extract_customers"
    /\ Len(last.events) = 2
    /\ Blank(last.events[1].summary)
    /\ Len(last.events[1].attendees) = 1
    /\ last.events[1].attendees[1].resource
    /\ last.events[1].attendees[1].displayName = <<"n">>
    /\ Len(calendar) = 1
    /\ calendar[1].event_id = 2

\* The attendees of the event that are not resources, in order.
People(event) == SelectSeq(event.attendees, IsPerson)

\* The event with the given attendees.
WithAttendees(event, attendees) == [event EXCEPT !.attendees = attendees]

\* The first two clauses of C26: the email of the first person, when they
\* have one, wins over later attendees and the description; resources
\* contribute nothing.
EmailPriority(event) ==
    LET candidate == CandidateOf(event)
        people == People(event)
    IN  /\ (candidate # NoCandidate /\ people # <<>> /\ Truthy(people[1].email))
              => candidate.email = OrNone(Strip(people[1].email))
        /\ candidate = _event_to_candidate(WithAttendees(event, people))

\* C26 as stated: with a blank summary the name of the candidate is the
\* display name of the first attendee that is not a resource.
C26_NameOfFirstPerson ==
    last.op = "extract_customers" =>
        \A i \in DOMAIN last.events :
            LET event == last.events[i]
                candidate == CandidateOf(event)
            IN  /\ EmailPriority(event)
                /\ (candidate # NoCandidate /\ Blank(event.summary))
                      => /\ People(event) # <<>>
                         /\ candidate.name
                              = Strip(OrEmpty(People(event)[1].displayName))

\* C26, amended: with a blank summary the name is the display name of the
\* first attendee that is not a resource and has a display name that is not
\* blank; the email is that of the first person when they have one, before
\* later attendees and the description; resources contribute nothing.
C26_EmailAndNamePriority ==
    last.op = "extract_customers" =>
        \A i \in DOMAIN last.events :
            LET event == last.events[i]
                candidate == CandidateOf(event)
                named == SelectSeq(event.attendees, HasDisplayName)
            IN  /\ EmailPriority(event)
                /\ (candidate # NoCandidate /\ Blank(event.summary))
                      => /\ named # <<>>
                         /\ candidate.name = Strip(named[1].displayName)

\* A room with an email and a name comes first; the person after it has an
\* email and a name, and the description carries another email: the
\* candidate has the person's email and, the summary being blank, name.
C26_Witness ==
    /\ last.op = "extract_customers"
    /\ Len(last.events) = 1
    /\ Blank(last.events[1].summary)
    /\ Len(last.events[1].attendees) = 2
    /\ last.events[1].attendees[1].resource
    /\ last.events[1].attendees[1].email = <<"e">>
    /\ last.events[1].attendees[1].displayName = <<"n">>
    /\ ~last.events[1].attendees[2].resource
    /\ last.events[1].attendees[2].email = <<"f", " ">>
    /\ last.events[1].attendees[2].displayName = <<"o">>
    /\ last.events[1].description = <<"e", "m", "a", "i", "l", ":", "d">>
    /\ Len(calendar) = 1
    /\ calendar[1].email = <<"f">>
    /\ calendar[1].name = <<"o">>

-----------------------------------------------------------------------------
(* Properties of the manual sync beside the scheduler *)

\* C25: the run-lock does not keep a manual sync from running beside a tick:
\* a POST of the calendar_sync form served while a tick holds the lock, with
\* the credentials file in place, calls run_calendar_sync and leaves the lock
\* as it was.
C25_ManualSyncRunsBesideTick ==
    [][(/\ \E w \in WorkerIds : workers[w].pc = "body" /\ sched.lock = w
        /\ env.credentials
        /\ last' # last
        /\ last'.op = "calendar_sync")
       => (last'.invoked /\ sched'.lock = sched.lock)]_vars

\* C28: at most one worker thread is inside the _worker loop at any time.
C28_SingleWorker ==
    Cardinality({w \in WorkerIds : workers[w].pc \notin {"unborn", "dead"}}) <= 1

\* C29: a tick that acquired the lock and finds the credentials file calls
\* run_calendar_sync exactly once before it releases the lock.
C29_TickCallsOrchestratorOnce ==
    [][\A w \in WorkerIds :
         (/\ workers[w].pc = "body"
          /\ workers'[w].pc = "finally"
          /\ env.credentials)
         => /\ sched'.tick.w = w
            /\ sched'.tick.calls = 1]_vars

-----------------------------------------------------------------------------
(* Properties of the ticket history *)

\* The rows the last request appended to ticket_history.
Appended ==
    SubSeq(ticket_history, Len(last.history) + 1, Len(ticket_history))

\* C30: a ticket_detail update whose form changes k >= 1 tracked fields
\* writes the ticket and appends exactly k history rows, one for each changed
\* field, with its old and new value and the user, and none for an unchanged
\* field; a form that changes no tracked field, or carries an invalid status,
\* leaves the ticket and the history as they were.
C30_AuditTrail ==
    (last.op = "ticket_detail" /\ last.outcome # "not_found") =>
        LET old == last.before[last.id]
            values == new_values(old, last.form)
            changed == {f \in TrackedFields : OrEmpty(old[f]) # OrEmpty(values[f])}
        IN  /\ SubSeq(ticket_history, 1, Len(last.history)) = last.history
            /\ IF values.status \in TICKET_STATUS_VALUES /\ changed # {}
               THEN /\ last.outcome = "updated"
                    /\ Len(Appended) = Cardinality(changed)
                    /\ \A f \in changed :
                          Cardinality({i \in DOMAIN Appended :
                                         Appended[i].field = f}) = 1
                    /\ \A i \in DOMAIN Appended :
                          LET row == Appended[i]
                          IN  /\ row.field \in changed
                              /\ row.ticket_id = last.id
                              /\ row.changed_by = session
                              /\ row.old_value = _format_value(row.field, old[row.field])
                              /\ row.new_value
                                   = _format_value(row.field, values[row.field])
                    /\ \A f \in TrackedFields : tickets[last.id][f] = values[f]
                    /\ tickets[last.id].last_modified_by = session
               ELSE /\ last.outcome \in {"no_changes", "invalid_status"}
                    /\ tickets = last.before
                    /\ Appended = <<>>

\* The ticket with every field filled and a history of one row: a form that
\* empties the product and leaves out the repair status, the rest as stored,
\* changes one field and appends one row.
C30_Witness ==
    /\ last.op = "ticket_detail"
    /\ last.outcome = "updated"
    /\ last.history = <<CreatedRow>>
    /\ last.before[1].product = <<"p">>
    /\ tickets[1].product = NULL
    /\ Len(ticket_history) = 2
    /\ ticket_history[2].field = "product"
    /\ ticket_history[2].old_value = <<"p">>
    /\ ticket_history[2].new_value = NULL
    /\ ticket_history[2].changed_by = 2

====
